--------------------------- MODULE Booking_proofs ---------------------------
(***************************************************************************)
(* Proofs about booking a unit, for any number of units, checkout          *)
(* sessions, requests and customers, and any choice of listings and modes. *)
(***************************************************************************)
EXTENDS Booking, TLAPS

(* A session has rows, and a unit that no longer changes, once it has picked. *)
Chosen(s) == spc[s] \in {"picked", "stray", "open", "failed"}

RowsAreChosen == \A s \in Sessions : hold[s] # "none" \/ session[s] # "none" => Chosen(s)

(* What a call of confirmCheckout or createReservation knows while it runs. *)
Late == {"consumed", "closed", "agreed", "billed", "done"}

FoundExists ==
    \A r \in Requests :
        rpc[r] # "idle" =>
            /\ via[r] \in Sessions /\ spc[via[r]] = "open"
            /\ found[r] \in Sessions /\ hold[found[r]] # "none"
            /\ unit[found[r]] = unit[via[r]]

ReservedFirst ==
    \A r \in Requests :
        /\ reservation[r] = "none" <=> rpc[r] \in {"idle", "found"}
        /\ converting[r] # 0 => reservation[r] # "none"

(* The holds that were used, the purged ones, and the requests that used them. *)
RedeemedIsUsed ==
    \A p \in redeemed : hold[p[1]] = "used" /\ found[p[2]] = p[1] /\ rpc[p[2]] \in Late

UsedIsRedeemed ==
    \A h \in Sessions : hold[h] = "used" => \E q \in Requests : <<h, q>> \in redeemed

LateHasRedeemed == \A r \in Requests : rpc[r] \in Late => <<found[r], r>> \in redeemed

PurgedIsExpired == \A h \in Sessions : hold[h] = "purged" => h \in expired

(* What a call of createCheckoutSession saw when it picked its unit. *)
AvoidedExist == \A s \in Sessions : \A t \in avoided[s] : hold[t] # "none"

AvoidedDiffer == \A s \in Sessions : Chosen(s) => \A t \in avoided[s] : unit[t] # unit[s]

(* A hold that stood when a unit was picked was avoided, unless it had expired. *)
StandingAreAvoided == \A s \in Sessions : \A t \in standing[s] : t \in avoided[s] \/ t \in expired

StandingExist == \A s \in Sessions : \A t \in standing[s] : hold[t] # "none"

(* A confirmation that found another session's hold saw its own session unexpired. *)
FoundFairly ==
    \A r \in Requests :
        rpc[r] # "idle" /\ via[r] # found[r] => via[r] \notin standing[found[r]]

(* How far a request has got tells which of the two rows it has inserted. *)
CheckoutAgreement ==
    \A r \in Requests :
        /\ agreement[r] = "checkout" => rpc[r] \in {"agreed", "billed", "done"}
        /\ rpc[r] = "agreed" => agreement[r] = "checkout"

SessionInv ==
    /\ RowsAreChosen
    /\ AvoidedExist
    /\ AvoidedDiffer
    /\ StandingAreAvoided
    /\ StandingExist
    /\ PurgedIsExpired

HoldInv ==
    /\ FoundExists
    /\ FoundFairly
    /\ RedeemedIsUsed
    /\ UsedIsRedeemed
    /\ LateHasRedeemed
    /\ LoserHasWinner

BookingInv ==
    /\ ReservedFirst
    /\ CompletedIsBacked
    /\ CheckoutAgreement
    /\ FirstInvoice

IInv == TypeOK /\ SessionInv /\ HoldInv /\ BookingInv

LEMMA InitIInv == Init => IInv
<1> SUFFICES ASSUME Init
             PROVE  IInv
    OBVIOUS
<1>1. TypeOK
    BY MaxDeskCallsAssumption DEF Init, TypeOK, Modes
<1>2. SessionInv
    BY DEF Init, SessionInv, RowsAreChosen, AvoidedExist, AvoidedDiffer, Chosen,
           StandingAreAvoided, StandingExist, PurgedIsExpired
<1>3. HoldInv
    BY DEF Init, HoldInv, FoundExists, FoundFairly, RedeemedIsUsed, UsedIsRedeemed, LateHasRedeemed, Late, LoserHasWinner
<1>4. BookingInv
    BY DEF Init, BookingInv, ReservedFirst, CompletedIsBacked, CheckoutAgreement, FirstInvoice
<1>5. QED
    BY <1>1, <1>2, <1>3, <1>4 DEF IInv

(* Every step keeps the columns and the calls' local state in their types. *)
LEMMA StepType == IInv /\ [Next]_vars => TypeOK'
<1> SUFFICES ASSUME IInv, [Next]_vars
             PROVE  TypeOK'
    OBVIOUS
<1> USE DEF sessionVars, holdVars, bookingVars, requestVars, deskVars
<1>0. TypeOK /\ FoundExists
    BY DEF IInv, HoldInv
<1>1. ASSUME NEW s \in Sessions, Expire(s)
      PROVE  TypeOK'
    BY <1>0, <1>1 DEF TypeOK, Expire
<1>2. ASSUME NEW s \in Sessions, PurgeExpired(s)
      PROVE  TypeOK'
    BY <1>0, <1>2 DEF TypeOK, PurgeExpired
<1>3. ASSUME NEW s \in Sessions, PickUnit(s)
      PROVE  TypeOK'
    <2>1. avoided' \in [Sessions -> SUBSET Sessions] /\ standing' \in [Sessions -> SUBSET Sessions]
        BY <1>0, <1>3 DEF TypeOK, PickUnit
    <2>2. spc' \in [Sessions -> {"idle", "purged", "picked", "stray", "open", "sold_out", "failed"}]
        BY <1>0, <1>3 DEF TypeOK, PickUnit
    <2>3. unit' \in [Sessions -> Units \cup {NoUnit}] /\ mode' \in [Sessions -> Modes]
        <3>1. PICK listed \in {Asked(s), FALSE} :
                  IF Candidates(s, listed) = {}
                    THEN UNCHANGED <<unit, mode>>
                    ELSE /\ \E u \in Candidates(s, listed) : unit' = [unit EXCEPT ![s] = u]
                         /\ mode' = [mode EXCEPT ![s] = IF listed THEN Mode[Listing[s]] ELSE "unlisted"]
            BY <1>3 DEF PickUnit
        <3>2. Candidates(s, listed) \subseteq Units
            BY <3>1 DEF Candidates, Asked
        <3>3. listed => Mode[Listing[s]] \in Modes
            BY <3>1, ModeAssumption DEF Asked
        <3>4. (IF listed THEN Mode[Listing[s]] ELSE "unlisted") \in Modes
            BY <3>3 DEF Modes
        <3>5. QED
            BY <1>0, <3>1, <3>2, <3>4 DEF TypeOK
    <2>4. QED
        BY <1>0, <1>3, <2>1, <2>2, <2>3 DEF TypeOK, PickUnit
<1>4. ASSUME NEW s \in Sessions, InsertHold(s)
      PROVE  TypeOK'
    BY <1>0, <1>4 DEF TypeOK, InsertHold
<1>5. ASSUME NEW s \in Sessions, InsertSession(s)
      PROVE  TypeOK'
    BY <1>0, <1>5 DEF TypeOK, InsertSession
<1>6. ASSUME NEW r \in Requests, FindHold(r)
      PROVE  TypeOK'
    BY <1>0, <1>6 DEF TypeOK, FindHold
<1>7. ASSUME NEW r \in Requests, Reserve(r)
      PROVE  TypeOK'
    <2>1. customers' \in [Emails -> Nat]
        <3>1. EmailOf[r] \in Emails /\ customers[EmailOf[r]] \in Nat
            BY <1>0, EmailOfAssumption DEF TypeOK
        <3>2. (IF known[r] THEN customers[EmailOf[r]] ELSE customers[EmailOf[r]] + 1) \in Nat
            BY <3>1
        <3>3. QED
            BY <1>0, <1>7, <3>1, <3>2 DEF TypeOK, Reserve
    <2>2. reservation' \in [Requests -> ReservationStatuses \cup {"none"}]
        BY <1>0, <1>7 DEF TypeOK, Reserve, ReservationStatuses
    <2>3. QED
        BY <1>0, <1>7, <2>1, <2>2 DEF TypeOK, Reserve
<1>8. ASSUME NEW r \in Requests, ConsumeHold(r)
      PROVE  TypeOK'
    BY <1>0, <1>8 DEF TypeOK, ConsumeHold, FoundExists
<1>9. ASSUME NEW r \in Requests, LoseHold(r)
      PROVE  TypeOK'
    BY <1>0, <1>9 DEF TypeOK, LoseHold
<1>10. ASSUME NEW r \in Requests, CompleteSession(r)
      PROVE  TypeOK'
    BY <1>0, <1>10 DEF TypeOK, CompleteSession, FoundExists
<1>11. ASSUME NEW r \in Requests, DraftAgreement(r)
      PROVE  TypeOK'
    BY <1>0, <1>11 DEF TypeOK, DraftAgreement
<1>12. ASSUME NEW r \in Requests, IssueInvoice(r)
      PROVE  TypeOK'
    BY <1>0, <1>12 DEF TypeOK, IssueInvoice
<1>13. ASSUME NEW r \in Requests, RecordCommission(r)
      PROVE  TypeOK'
    BY <1>0, <1>13 DEF TypeOK, RecordCommission
<1>14. ASSUME NEW r \in Requests, UpdateStatus(r)
      PROVE  TypeOK'
    BY <1>0, <1>14, OperatorStatusesAssumption, MaxDeskCallsAssumption DEF TypeOK, UpdateStatus, DeskWrites, DeskCall
<1>15. ASSUME NEW r \in Requests, ConfirmReservation(r)
      PROVE  TypeOK'
    BY <1>0, <1>15, MaxDeskCallsAssumption DEF TypeOK, ConfirmReservation, DeskWrites, DeskCall, ReservationStatuses
<1>16. ASSUME NEW r \in Requests, CancelReservation(r)
      PROVE  TypeOK'
    BY <1>0, <1>16, MaxDeskCallsAssumption DEF TypeOK, CancelReservation, DeskWrites, DeskCall, ReservationStatuses
<1>17. ASSUME NEW r \in Requests, DraftAtDesk(r)
      PROVE  TypeOK'
    BY <1>0, <1>17, MaxDeskCallsAssumption DEF TypeOK, DraftAtDesk, DeskCall
<1>18. ASSUME NEW r \in Requests, ConvertReservation(r)
      PROVE  TypeOK'
    BY <1>0, <1>18 DEF TypeOK, ConvertReservation, ReservationStatuses
<1>19. CASE UNCHANGED vars
    BY <1>0, <1>19 DEF vars, TypeOK
<1>20. QED
    BY <1>1, <1>2, <1>3, <1>4, <1>5, <1>6, <1>7, <1>8, <1>9, <1>10, <1>11, <1>12, <1>13, <1>14, <1>15, <1>16, <1>17, <1>18, <1>19
       DEF Next, SessionStep, RequestStep, DeskStep

(***************************************************************************)
(* A session's unit is fixed before any row of it exists, so what a call   *)
(* read when it picked stays true; requests only use up present holds.     *)
(***************************************************************************)
LEMMA StepSession == IInv /\ [Next]_vars => SessionInv'
<1> SUFFICES ASSUME IInv, [Next]_vars
             PROVE  SessionInv'
    OBVIOUS
<1> USE DEF sessionVars, holdVars, bookingVars, requestVars, deskVars, SessionInv, RowsAreChosen, AvoidedExist,
        AvoidedDiffer, Chosen, StandingAreAvoided, StandingExist, PurgedIsExpired
<1>0. /\ SessionInv
      /\ spc \in [Sessions -> {"idle", "purged", "picked", "stray", "open", "sold_out", "failed"}]
      /\ unit \in [Sessions -> Units \cup {NoUnit}]
      /\ hold \in [Sessions -> {"none", "present", "used", "purged"}]
      /\ session \in [Sessions -> {"none", "started", "completed"}]
      /\ expired \in SUBSET Sessions
      /\ avoided \in [Sessions -> SUBSET Sessions]
      /\ standing \in [Sessions -> SUBSET Sessions]
    BY DEF IInv, TypeOK
<1>1. ASSUME NEW s \in Sessions, Expire(s)
      PROVE  SessionInv'
    BY <1>0, <1>1 DEF Expire
<1>2. ASSUME NEW s \in Sessions, PurgeExpired(s)
      PROVE  SessionInv'
    BY <1>0, <1>2 DEF PurgeExpired
<1>3. ASSUME NEW s \in Sessions, PickUnit(s)
      PROVE  SessionInv'
    <2>1. /\ spc[s] = "purged" /\ hold[s] = "none" /\ session[s] = "none"
          /\ \A t \in Sessions \ {s} : spc'[t] = spc[t] /\ unit'[t] = unit[t] /\ avoided'[t] = avoided[t]
          /\ avoided'[s] = {t \in Sessions : Live(t)}
          /\ UNCHANGED <<hold, session, expired>>
        BY <1>0, <1>3 DEF PickUnit
    <2>2. /\ standing'[s] = {t \in Sessions : hold[t] \in {"present", "purged"}}
          /\ \A t \in Sessions \ {s} : standing'[t] = standing[t]
        BY <1>0, <1>3 DEF PickUnit
    <2>3. spc'[s] \in {"picked", "stray"} => unit'[s] \notin HeldNow
        BY <1>0, <1>3 DEF PickUnit, Candidates, Asked
    <2>4. spc'[s] \in {"picked", "stray", "sold_out"}
        BY <1>0, <1>3 DEF PickUnit
    <2>5. \A t \in Sessions : Live(t) => t # s /\ hold[t] = "present" /\ unit[t] \in HeldNow
        BY <2>1 DEF Live, HeldNow
    <2>6. RowsAreChosen' /\ PurgedIsExpired'
        BY <1>0, <2>1
    <2>7. AvoidedExist' /\ StandingExist'
        BY <1>0, <2>1, <2>2, <2>5
    <2>8. AvoidedDiffer'
        BY <1>0, <2>1, <2>3, <2>4, <2>5
    <2>9. StandingAreAvoided'
        BY <1>0, <2>1, <2>2 DEF Live
    <2>10. QED
        BY <2>6, <2>7, <2>8, <2>9
<1>4. ASSUME NEW s \in Sessions, InsertHold(s)
      PROVE  SessionInv'
    BY <1>0, <1>4 DEF InsertHold
<1>5. ASSUME NEW s \in Sessions, InsertSession(s)
      PROVE  SessionInv'
    BY <1>0, <1>5 DEF InsertSession
<1>6. ASSUME NEW r \in Requests, ConsumeHold(r)
      PROVE  SessionInv'
    BY <1>0, <1>6 DEF ConsumeHold
<1>7. ASSUME NEW r \in Requests, CompleteSession(r)
      PROVE  SessionInv'
    <2>1. via[r] \in Sessions /\ Chosen(via[r])
        BY <1>7 DEF CompleteSession, IInv, HoldInv, FoundExists
    <2>2. QED
        BY <1>0, <1>7, <2>1 DEF CompleteSession
<1>8. ASSUME UNCHANGED <<sessionVars, holdVars, session>>
      PROVE  SessionInv'
    BY <1>0, <1>8
<1>9. ASSUME NEW r \in Requests,
             \/ FindHold(r) \/ Reserve(r) \/ LoseHold(r) \/ DraftAgreement(r)
             \/ IssueInvoice(r) \/ RecordCommission(r) \/ DeskStep(r)
      PROVE  UNCHANGED <<sessionVars, holdVars, session>>
    BY <1>9 DEF FindHold, Reserve, LoseHold, DraftAgreement, IssueInvoice, RecordCommission,
                DeskStep, UpdateStatus, ConfirmReservation, CancelReservation, DraftAtDesk, ConvertReservation,
                DeskWrites, DeskCall
<1>10. CASE UNCHANGED vars
    BY <1>8, <1>10 DEF vars
<1>11. QED
    BY <1>1, <1>2, <1>3, <1>4, <1>5, <1>6, <1>7, <1>8, <1>9, <1>10 DEF Next, SessionStep, RequestStep


(***************************************************************************)
(* What is once written stays: a request keeps its session and its hold,   *)
(* a session its unit, and a hold that is gone does not come back.         *)
(***************************************************************************)
Persists ==
    /\ \A r \in Requests :
          /\ rpc[r] # "idle" => rpc'[r] # "idle" /\ via'[r] = via[r] /\ found'[r] = found[r]
          /\ rpc[r] \in Late => rpc'[r] \in Late
          /\ reservation[r] # "none" => reservation'[r] # "none"
    /\ \A s \in Sessions :
          /\ hold[s] # "none" => hold'[s] # "none" /\ unit'[s] = unit[s]
          /\ spc[s] = "open" => spc'[s] = "open" /\ unit'[s] = unit[s]
          /\ hold[s] \in {"used", "purged"} => hold'[s] = hold[s]
          /\ Chosen(s) => standing'[s] = standing[s]
    /\ redeemed \subseteq redeemed'
    /\ expired \subseteq expired'

LEMMA StepPersists == IInv /\ [Next]_vars => Persists
<1> SUFFICES ASSUME IInv, [Next]_vars
             PROVE  Persists
    OBVIOUS
<1> USE DEF sessionVars, holdVars, bookingVars, requestVars, deskVars, Persists, Late, Chosen
<1>0. /\ RowsAreChosen
      /\ spc \in [Sessions -> {"idle", "purged", "picked", "stray", "open", "sold_out", "failed"}]
      /\ unit \in [Sessions -> Units \cup {NoUnit}]
      /\ hold \in [Sessions -> {"none", "present", "used", "purged"}]
      /\ session \in [Sessions -> {"none", "started", "completed"}]
      /\ expired \in SUBSET Sessions
      /\ standing \in [Sessions -> SUBSET Sessions]
      /\ reservation \in [Requests -> ReservationStatuses \cup {"none"}]
      /\ rpc \in [Requests -> {"idle", "found", "reserved", "consumed", "closed", "agreed",
                               "billed", "done", "lost"}]
      /\ via \in [Requests -> Sessions \cup {NoSession}]
      /\ found \in [Requests -> Sessions \cup {NoSession}]
      /\ redeemed \in SUBSET (Sessions \X Requests)
    BY DEF IInv, TypeOK, SessionInv
<1>1. ASSUME NEW s \in Sessions, Expire(s)
      PROVE  Persists
    BY <1>0, <1>1 DEF Expire
<1>2. ASSUME NEW s \in Sessions, PurgeExpired(s)
      PROVE  Persists
    BY <1>0, <1>2 DEF PurgeExpired
<1>3. ASSUME NEW s \in Sessions, PickUnit(s)
      PROVE  Persists
    BY <1>0, <1>3 DEF PickUnit, RowsAreChosen, Chosen
<1>4. ASSUME NEW s \in Sessions, InsertHold(s)
      PROVE  Persists
    BY <1>0, <1>4 DEF InsertHold
<1>5. ASSUME NEW s \in Sessions, InsertSession(s)
      PROVE  Persists
    BY <1>0, <1>5 DEF InsertSession
<1>6. ASSUME NEW r \in Requests, FindHold(r)
      PROVE  Persists
    BY <1>0, <1>6 DEF FindHold
<1>7. ASSUME NEW r \in Requests, Reserve(r)
      PROVE  Persists
    BY <1>0, <1>7 DEF Reserve, ReservationStatuses
<1>8. ASSUME NEW r \in Requests, ConsumeHold(r)
      PROVE  Persists
    BY <1>0, <1>8 DEF ConsumeHold
<1>9. ASSUME NEW r \in Requests, LoseHold(r)
      PROVE  Persists
    BY <1>0, <1>9 DEF LoseHold
<1>10. ASSUME NEW r \in Requests, CompleteSession(r)
      PROVE  Persists
    BY <1>0, <1>10 DEF CompleteSession
<1>11. ASSUME NEW r \in Requests, DraftAgreement(r)
      PROVE  Persists
    BY <1>0, <1>11 DEF DraftAgreement
<1>12. ASSUME NEW r \in Requests, IssueInvoice(r)
      PROVE  Persists
    BY <1>0, <1>12 DEF IssueInvoice
<1>13. ASSUME NEW r \in Requests, RecordCommission(r)
      PROVE  Persists
    BY <1>0, <1>13 DEF RecordCommission
<1>14. ASSUME NEW r \in Requests, UpdateStatus(r)
      PROVE  Persists
    BY <1>0, <1>14, OperatorStatusesAssumption DEF UpdateStatus, DeskWrites, DeskCall, ReservationStatuses
<1>15. ASSUME NEW r \in Requests, ConfirmReservation(r)
      PROVE  Persists
    BY <1>0, <1>15 DEF ConfirmReservation, DeskWrites, DeskCall
<1>16. ASSUME NEW r \in Requests, CancelReservation(r)
      PROVE  Persists
    BY <1>0, <1>16 DEF CancelReservation, DeskWrites, DeskCall
<1>17. ASSUME NEW r \in Requests, DraftAtDesk(r)
      PROVE  Persists
    BY <1>0, <1>17 DEF DraftAtDesk, DeskCall
<1>18. ASSUME NEW r \in Requests, ConvertReservation(r)
      PROVE  Persists
    BY <1>0, <1>18 DEF ConvertReservation
<1>19. CASE UNCHANGED vars
    BY <1>0, <1>19 DEF vars
<1>20. QED
    BY <1>1, <1>2, <1>3, <1>4, <1>5, <1>6, <1>7, <1>8, <1>9, <1>10, <1>11, <1>12, <1>13, <1>14, <1>15, <1>16, <1>17, <1>18, <1>19
       DEF Next, SessionStep, RequestStep, DeskStep

(***************************************************************************)
(* Which step can have brought about what the next state shows.            *)
(***************************************************************************)
Causes ==
    /\ \A r \in Requests :
          /\ rpc[r] = "idle" /\ rpc'[r] # "idle" => FindHold(r)
          /\ rpc[r] \notin Late /\ rpc'[r] \in Late => ConsumeHold(r)
          /\ rpc[r] # "lost" /\ rpc'[r] = "lost" => LoseHold(r)
    /\ \A s \in Sessions :
          /\ hold[s] # "used" /\ hold'[s] = "used" => \E r \in Requests : ConsumeHold(r) /\ found[r] = s
          /\ session[s] # "completed" /\ session'[s] = "completed" =>
                \E r \in Requests : CompleteSession(r) /\ via[r] = s
    /\ \A p \in redeemed' \ redeemed :
          \E r \in Requests : ConsumeHold(r) /\ p = <<found[r], r>>

LEMMA StepCauses == IInv /\ [Next]_vars => Causes
<1> SUFFICES ASSUME IInv, [Next]_vars
             PROVE  Causes
    OBVIOUS
<1> USE DEF sessionVars, holdVars, bookingVars, requestVars, deskVars, Causes, Late
<1>0. /\ RowsAreChosen
      /\ spc \in [Sessions -> {"idle", "purged", "picked", "stray", "open", "sold_out", "failed"}]
      /\ unit \in [Sessions -> Units \cup {NoUnit}]
      /\ hold \in [Sessions -> {"none", "present", "used", "purged"}]
      /\ session \in [Sessions -> {"none", "started", "completed"}]
      /\ expired \in SUBSET Sessions
      /\ reservation \in [Requests -> ReservationStatuses \cup {"none"}]
      /\ rpc \in [Requests -> {"idle", "found", "reserved", "consumed", "closed", "agreed",
                               "billed", "done", "lost"}]
      /\ via \in [Requests -> Sessions \cup {NoSession}]
      /\ found \in [Requests -> Sessions \cup {NoSession}]
      /\ redeemed \in SUBSET (Sessions \X Requests)
    BY DEF IInv, TypeOK, SessionInv
<1>1. ASSUME NEW s \in Sessions, Expire(s)
      PROVE  Causes
    BY <1>0, <1>1 DEF Expire
<1>2. ASSUME NEW s \in Sessions, PurgeExpired(s)
      PROVE  Causes
    BY <1>0, <1>2 DEF PurgeExpired
<1>3. ASSUME NEW s \in Sessions, PickUnit(s)
      PROVE  Causes
    BY <1>0, <1>3 DEF PickUnit
<1>4. ASSUME NEW s \in Sessions, InsertHold(s)
      PROVE  Causes
    BY <1>0, <1>4 DEF InsertHold
<1>5. ASSUME NEW s \in Sessions, InsertSession(s)
      PROVE  Causes
    BY <1>0, <1>5 DEF InsertSession
<1>6. ASSUME NEW r \in Requests, FindHold(r)
      PROVE  Causes
    <2>1. rpc' = [rpc EXCEPT ![r] = "found"] /\ UNCHANGED <<sessionVars, holdVars, session>>
        BY <1>6 DEF FindHold
    <2>2. QED
        BY <1>0, <1>6, <2>1
<1>7. ASSUME NEW r \in Requests, Reserve(r)
      PROVE  Causes
    BY <1>0, <1>7 DEF Reserve
<1>8. ASSUME NEW r \in Requests, ConsumeHold(r)
      PROVE  Causes
    BY <1>0, <1>8 DEF ConsumeHold
<1>9. ASSUME NEW r \in Requests, LoseHold(r)
      PROVE  Causes
    BY <1>0, <1>9 DEF LoseHold
<1>10. ASSUME NEW r \in Requests, CompleteSession(r)
      PROVE  Causes
    BY <1>0, <1>10 DEF CompleteSession
<1>11. ASSUME NEW r \in Requests, DraftAgreement(r)
      PROVE  Causes
    BY <1>0, <1>11 DEF DraftAgreement
<1>12. ASSUME NEW r \in Requests, IssueInvoice(r)
      PROVE  Causes
    BY <1>0, <1>12 DEF IssueInvoice
<1>13. ASSUME NEW r \in Requests, RecordCommission(r)
      PROVE  Causes
    BY <1>0, <1>13 DEF RecordCommission
<1>14. ASSUME NEW r \in Requests, UpdateStatus(r)
      PROVE  Causes
    BY <1>0, <1>14 DEF UpdateStatus, DeskWrites, DeskCall, ReservationStatuses
<1>15. ASSUME NEW r \in Requests, ConfirmReservation(r)
      PROVE  Causes
    BY <1>0, <1>15 DEF ConfirmReservation, DeskWrites, DeskCall
<1>16. ASSUME NEW r \in Requests, CancelReservation(r)
      PROVE  Causes
    BY <1>0, <1>16 DEF CancelReservation, DeskWrites, DeskCall
<1>17. ASSUME NEW r \in Requests, DraftAtDesk(r)
      PROVE  Causes
    BY <1>0, <1>17 DEF DraftAtDesk, DeskCall
<1>18. ASSUME NEW r \in Requests, ConvertReservation(r)
      PROVE  Causes
    BY <1>0, <1>18 DEF ConvertReservation
<1>19. CASE UNCHANGED vars
    BY <1>0, <1>19 DEF vars
<1>20. QED
    BY <1>1, <1>2, <1>3, <1>4, <1>5, <1>6, <1>7, <1>8, <1>9, <1>10, <1>11, <1>12, <1>13, <1>14, <1>15, <1>16, <1>17, <1>18, <1>19
       DEF Next, SessionStep, RequestStep, DeskStep

(***************************************************************************)
(* Between finding a hold and deleting it a request loses the hold only to *)
(* a purge or to another request, and the winner is on record.             *)
(***************************************************************************)
LEMMA StepHolds == IInv /\ [Next]_vars => HoldInv'
<1> SUFFICES ASSUME IInv, [Next]_vars
             PROVE  HoldInv'
    OBVIOUS
<1>0. /\ Persists /\ Causes /\ SessionInv /\ HoldInv
      /\ TypeOK'
      /\ hold \in [Sessions -> {"none", "present", "used", "purged"}]
      /\ redeemed \in SUBSET (Sessions \X Requests)
    BY StepPersists, StepCauses, StepType DEF IInv, TypeOK
<1>1. FoundExists'
    <2>1. ASSUME NEW r \in Requests, rpc'[r] # "idle"
          PROVE  /\ via'[r] \in Sessions /\ spc'[via'[r]] = "open"
                 /\ found'[r] \in Sessions /\ hold'[found'[r]] # "none"
                 /\ unit'[found'[r]] = unit'[via'[r]]
        <3>1. CASE rpc[r] # "idle"
            BY <1>0, <2>1, <3>1 DEF HoldInv, FoundExists, Persists
        <3>2. CASE rpc[r] = "idle"
            <4>1. FindHold(r)
                BY <1>0, <2>1, <3>2 DEF Causes
            <4>2. PICK s \in Sessions, k \in {"checkout", "token"}, h \in Sessions :
                      /\ spc[s] = "open" /\ Matches(k, s, h)
                      /\ via' = [via EXCEPT ![r] = s]
                      /\ found' = [found EXCEPT ![r] = h]
                BY <4>1 DEF FindHold
            <4>3. via'[r] = s /\ found'[r] = h
                BY <4>2 DEF IInv, TypeOK
            <4>4. spc' = spc /\ hold' = hold /\ unit' = unit
                BY <4>1 DEF FindHold, sessionVars, holdVars
            <4>5. hold[h] = "present" /\ unit[h] = unit[s]
                BY <4>2 DEF Matches, Live
            <4>6. QED
                BY <4>2, <4>3, <4>4, <4>5
        <3>3. QED
            BY <3>1, <3>2
    <2>2. QED
        BY <2>1 DEF FoundExists
<1>2. RedeemedIsUsed'
    <2>1. ASSUME NEW p \in redeemed'
          PROVE  hold'[p[1]] = "used" /\ found'[p[2]] = p[1] /\ rpc'[p[2]] \in Late
        <3>1. CASE p \in redeemed
            <4>1. p[1] \in Sessions /\ p[2] \in Requests
                BY <1>0, <3>1
            <4>2. rpc[p[2]] # "idle"
                BY <1>0, <3>1 DEF HoldInv, RedeemedIsUsed, Late
            <4>3. QED
                BY <1>0, <3>1, <4>1, <4>2 DEF HoldInv, RedeemedIsUsed, Persists
        <3>2. CASE p \notin redeemed
            <4>1. PICK r \in Requests : ConsumeHold(r) /\ p = <<found[r], r>>
                BY <1>0, <2>1, <3>2 DEF Causes
            <4>2. found[r] \in Sessions
                BY <1>0, <4>1 DEF ConsumeHold, HoldInv, FoundExists
            <4>3. hold'[found[r]] = "used" /\ rpc'[r] \in Late /\ found' = found
                BY <1>0, <4>1, <4>2 DEF ConsumeHold, Late, IInv, TypeOK
            <4>4. QED
                BY <4>1, <4>3
        <3>3. QED
            BY <3>1, <3>2
    <2>2. QED
        BY <2>1 DEF RedeemedIsUsed
<1>3. UsedIsRedeemed'
    <2>1. ASSUME NEW h \in Sessions, hold'[h] = "used"
          PROVE  \E q \in Requests : <<h, q>> \in redeemed'
        <3>1. CASE hold[h] = "used"
            BY <1>0, <3>1 DEF HoldInv, UsedIsRedeemed, Persists
        <3>2. CASE hold[h] # "used"
            <4>1. PICK r \in Requests : ConsumeHold(r) /\ found[r] = h
                BY <1>0, <2>1, <3>2 DEF Causes
            <4>2. <<h, r>> \in redeemed'
                BY <4>1 DEF ConsumeHold
            <4>3. QED
                BY <4>2
        <3>3. QED
            BY <3>1, <3>2
    <2>2. QED
        BY <2>1 DEF UsedIsRedeemed
<1>4. LateHasRedeemed'
    <2>1. ASSUME NEW r \in Requests, rpc'[r] \in Late
          PROVE  <<found'[r], r>> \in redeemed'
        <3>1. CASE rpc[r] \in Late
            <4>1. found'[r] = found[r] /\ <<found[r], r>> \in redeemed
                BY <1>0, <3>1 DEF HoldInv, LateHasRedeemed, Persists, Late
            <4>2. QED
                BY <1>0, <4>1 DEF Persists
        <3>2. CASE rpc[r] \notin Late
            <4>1. ConsumeHold(r)
                BY <1>0, <2>1, <3>2 DEF Causes
            <4>2. QED
                BY <4>1 DEF ConsumeHold, requestVars
        <3>3. QED
            BY <3>1, <3>2
    <2>2. QED
        BY <2>1 DEF LateHasRedeemed
<1>5. LoserHasWinner'
    <2>1. ASSUME NEW r \in Requests, rpc'[r] = "lost"
          PROVE  \/ \E q \in Requests \ {r} : <<found'[r], q>> \in redeemed'
                 \/ hold'[found'[r]] = "purged" /\ found'[r] \in expired'
        <3>1. CASE rpc[r] = "lost"
            <4>1. found'[r] = found[r] /\ found[r] \in Sessions
                BY <1>0, <3>1 DEF HoldInv, FoundExists, Persists
            <4>2. \/ \E q \in Requests \ {r} : <<found[r], q>> \in redeemed
                  \/ hold[found[r]] = "purged" /\ found[r] \in expired
                BY <1>0, <3>1 DEF HoldInv, LoserHasWinner
            <4>3. QED
                BY <1>0, <4>1, <4>2 DEF Persists
        <3>2. CASE rpc[r] # "lost"
            <4>1. LoseHold(r)
                BY <1>0, <2>1, <3>2 DEF Causes
            <4>2. /\ rpc[r] = "reserved" /\ hold[found[r]] # "present"
                  /\ UNCHANGED <<hold, expired, redeemed, found>>
                BY <4>1 DEF LoseHold, holdVars
            <4>3. found[r] \in Sessions /\ hold[found[r]] \in {"used", "purged"}
                BY <1>0, <4>2 DEF HoldInv, FoundExists
            <4>4. CASE hold[found[r]] = "purged"
                BY <1>0, <4>2, <4>3, <4>4 DEF SessionInv, PurgedIsExpired
            <4>5. CASE hold[found[r]] = "used"
                <5>1. PICK q \in Requests : <<found[r], q>> \in redeemed
                    BY <1>0, <4>3, <4>5 DEF HoldInv, UsedIsRedeemed
                <5>2. rpc[q] \in Late
                    BY <1>0, <5>1 DEF HoldInv, RedeemedIsUsed
                <5>3. q # r
                    BY <4>2, <5>2 DEF Late
                <5>4. QED
                    BY <4>2, <5>1, <5>3
            <4>6. QED
                BY <4>3, <4>4, <4>5
        <3>3. QED
            BY <3>1, <3>2
    <2>2. QED
        BY <2>1 DEF LoserHasWinner
<1>6. FoundFairly'
    <2>1. ASSUME NEW r \in Requests, rpc'[r] # "idle", via'[r] # found'[r]
          PROVE  via'[r] \notin standing'[found'[r]]
        <3>1. CASE rpc[r] # "idle"
            <4>1. /\ via'[r] = via[r] /\ found'[r] = found[r]
                  /\ found[r] \in Sessions /\ Chosen(found[r])
                BY <1>0, <3>1 DEF HoldInv, FoundExists, Persists, SessionInv, RowsAreChosen
            <4>2. standing'[found[r]] = standing[found[r]]
                BY <1>0, <4>1 DEF Persists
            <4>3. via[r] \notin standing[found[r]]
                BY <2>1, <1>0, <3>1, <4>1 DEF HoldInv, FoundFairly
            <4>4. QED
                BY <4>1, <4>2, <4>3
        <3>2. CASE rpc[r] = "idle"
            <4>1. FindHold(r)
                BY <1>0, <2>1, <3>2 DEF Causes
            <4>2. PICK s \in Sessions, k \in {"checkout", "token"}, h \in Sessions :
                      /\ spc[s] = "open" /\ Matches(k, s, h)
                      /\ via' = [via EXCEPT ![r] = s]
                      /\ found' = [found EXCEPT ![r] = h]
                BY <4>1 DEF FindHold
            <4>3. via'[r] = s /\ found'[r] = h
                BY <4>2 DEF IInv, TypeOK
            <4>4. standing' = standing
                BY <4>1 DEF FindHold, sessionVars
            <4>5. h # s /\ hold[h] = "present" /\ unit[h] = unit[s] /\ s \notin expired
                BY <2>1, <4>2, <4>3 DEF Matches, Live
            <4>6. Chosen(h)
                BY <1>0, <4>5 DEF SessionInv, RowsAreChosen
            <4>7. s \notin avoided[h]
                BY <1>0, <4>5, <4>6 DEF SessionInv, AvoidedDiffer
            <4>8. s \notin standing[h]
                BY <1>0, <4>5, <4>7 DEF SessionInv, StandingAreAvoided
            <4>9. QED
                BY <4>3, <4>4, <4>8
        <3>3. QED
            BY <3>1, <3>2
    <2>2. QED
        BY <2>1 DEF FoundFairly
<1>7. QED
    BY <1>1, <1>2, <1>3, <1>4, <1>5, <1>6 DEF HoldInv

(* A completed session keeps the reservation and the hold that back it. *)
LEMMA StepBacked == IInv /\ [Next]_vars => CompletedIsBacked'
<1> SUFFICES ASSUME IInv, [Next]_vars,
                    NEW s \in Sessions, session'[s] = "completed"
             PROVE  \E r \in Requests :
                        /\ via'[r] = s
                        /\ reservation'[r] # "none"
                        /\ <<found'[r], r>> \in redeemed'
                        /\ unit'[found'[r]] = unit'[s]
    BY DEF CompletedIsBacked
<1>0. Persists /\ Causes /\ HoldInv /\ BookingInv
    BY StepPersists, StepCauses DEF IInv
<1>1. PICK r \in Requests :
          via[r] = s /\ reservation[r] # "none" /\ <<found[r], r>> \in redeemed
    <2>1. CASE session[s] = "completed"
        BY <1>0, <2>1 DEF BookingInv, CompletedIsBacked
    <2>2. CASE session[s] # "completed"
        <3>1. PICK r \in Requests : CompleteSession(r) /\ via[r] = s
            BY <1>0, <2>2 DEF Causes
        <3>2. rpc[r] = "consumed"
            BY <3>1 DEF CompleteSession
        <3>3. QED
            BY <1>0, <3>1, <3>2 DEF HoldInv, LateHasRedeemed, Late, BookingInv, ReservedFirst
    <2>3. QED
        BY <2>1, <2>2
<1>2. rpc[r] # "idle"
    BY <1>0, <1>1 DEF BookingInv, ReservedFirst
<1>3. /\ spc[s] = "open" /\ found[r] \in Sessions /\ hold[found[r]] # "none"
      /\ unit[found[r]] = unit[s]
    BY <1>0, <1>1, <1>2 DEF HoldInv, FoundExists
<1>4. QED
    BY <1>0, <1>1, <1>2, <1>3 DEF Persists

(***************************************************************************)
(* How far a request has got tells which rows it has written, whatever the *)
(* desk does to its reservation meanwhile.                                 *)
(***************************************************************************)
LEMMA StepBooking == IInv /\ [Next]_vars => BookingInv'
<1> SUFFICES ASSUME IInv, [Next]_vars
             PROVE  ReservedFirst' /\ CheckoutAgreement' /\ FirstInvoice'
    BY StepBacked DEF BookingInv
<1> USE DEF bookingVars, requestVars, deskVars, ReservedFirst, CheckoutAgreement, FirstInvoice
<1>0. /\ ReservedFirst /\ CheckoutAgreement /\ FirstInvoice
      /\ reservation \in [Requests -> ReservationStatuses \cup {"none"}]
      /\ agreement \in [Requests -> {"none", "checkout", "operator"}]
      /\ converting \in [Requests -> Nat]
      /\ invoices \in SUBSET Requests
      /\ rpc \in [Requests -> {"idle", "found", "reserved", "consumed", "closed", "agreed",
                               "billed", "done", "lost"}]
      /\ via \in [Requests -> Sessions \cup {NoSession}]
    BY DEF IInv, TypeOK, BookingInv
<1>1. ASSUME UNCHANGED <<bookingVars, requestVars, deskVars>>
      PROVE  ReservedFirst' /\ CheckoutAgreement' /\ FirstInvoice'
    BY <1>0, <1>1
<1>2. ASSUME NEW s \in Sessions, SessionStep(s) \/ Expire(s)
      PROVE  UNCHANGED <<bookingVars, requestVars, deskVars>>
    BY <1>2 DEF SessionStep, Expire, PurgeExpired, PickUnit, InsertHold, InsertSession
<1>3. ASSUME NEW r \in Requests, FindHold(r)
      PROVE  ReservedFirst' /\ CheckoutAgreement' /\ FirstInvoice'
    BY <1>0, <1>3 DEF FindHold
<1>4. ASSUME NEW r \in Requests, Reserve(r)
      PROVE  ReservedFirst' /\ CheckoutAgreement' /\ FirstInvoice'
    BY <1>0, <1>4 DEF Reserve, ReservationStatuses
<1>5. ASSUME NEW r \in Requests, ConsumeHold(r)
      PROVE  ReservedFirst' /\ CheckoutAgreement' /\ FirstInvoice'
    BY <1>0, <1>5 DEF ConsumeHold
<1>6. ASSUME NEW r \in Requests, LoseHold(r)
      PROVE  ReservedFirst' /\ CheckoutAgreement' /\ FirstInvoice'
    BY <1>0, <1>6 DEF LoseHold
<1>7. ASSUME NEW r \in Requests, CompleteSession(r)
      PROVE  ReservedFirst' /\ CheckoutAgreement' /\ FirstInvoice'
    BY <1>0, <1>7 DEF CompleteSession
<1>8. ASSUME NEW r \in Requests, DraftAgreement(r)
      PROVE  ReservedFirst' /\ CheckoutAgreement' /\ FirstInvoice'
    BY <1>0, <1>8 DEF DraftAgreement
<1>9. ASSUME NEW r \in Requests, IssueInvoice(r)
      PROVE  ReservedFirst' /\ CheckoutAgreement' /\ FirstInvoice'
    BY <1>0, <1>9 DEF IssueInvoice
<1>10. ASSUME NEW r \in Requests, RecordCommission(r)
      PROVE  ReservedFirst' /\ CheckoutAgreement' /\ FirstInvoice'
    BY <1>0, <1>10 DEF RecordCommission
<1>11. ASSUME NEW r \in Requests, UpdateStatus(r)
      PROVE  ReservedFirst' /\ CheckoutAgreement' /\ FirstInvoice'
    BY <1>0, <1>11, OperatorStatusesAssumption DEF UpdateStatus, DeskWrites, DeskCall, ReservationStatuses
<1>12. ASSUME NEW r \in Requests, ConfirmReservation(r)
      PROVE  ReservedFirst' /\ CheckoutAgreement' /\ FirstInvoice'
    BY <1>0, <1>12 DEF ConfirmReservation, DeskWrites, DeskCall
<1>13. ASSUME NEW r \in Requests, CancelReservation(r)
      PROVE  ReservedFirst' /\ CheckoutAgreement' /\ FirstInvoice'
    BY <1>0, <1>13 DEF CancelReservation, DeskWrites, DeskCall
<1>14. ASSUME NEW r \in Requests, DraftAtDesk(r)
      PROVE  ReservedFirst' /\ CheckoutAgreement' /\ FirstInvoice'
    BY <1>0, <1>14 DEF DraftAtDesk, DeskCall
<1>15. ASSUME NEW r \in Requests, ConvertReservation(r)
      PROVE  ReservedFirst' /\ CheckoutAgreement' /\ FirstInvoice'
    BY <1>0, <1>15 DEF ConvertReservation
<1>16. CASE UNCHANGED vars
    BY <1>1, <1>16 DEF vars
<1>17. QED
    BY <1>1, <1>2, <1>3, <1>4, <1>5, <1>6, <1>7, <1>8, <1>9, <1>10, <1>11, <1>12, <1>13, <1>14, <1>15, <1>16
       DEF Next, RequestStep, DeskStep

LEMMA Invariance == Spec => []IInv
<1>1. IInv /\ [Next]_vars => IInv'
    BY StepType, StepSession, StepHolds, StepBooking DEF IInv
<1>2. QED
    BY <1>1, InitIInv, PTL DEF Spec

(* The rows and the calls' local state keep their types. *)
THEOREM TypeCorrect == Spec => []TypeOK
<1>1. IInv => TypeOK
    BY DEF IInv
<1>2. QED
    BY <1>1, Invariance, PTL

(* A request that found its hold gone lost it to another one, or to the purge. *)
THEOREM LosersLoseToWinners == Spec => []LoserHasWinner
<1>1. IInv => LoserHasWinner
    BY DEF IInv, HoldInv
<1>2. QED
    BY <1>1, Invariance, PTL

(* A completed session is backed by a reservation and by a hold of its unit. *)
THEOREM CompletionIsBacked == Spec => []CompletedIsBacked
<1>1. IInv => CompletedIsBacked
    BY DEF IInv, BookingInv
<1>2. QED
    BY <1>1, Invariance, PTL

(* Only overlapping calls of createCheckoutSession hold the same unit. *)
THEOREM HoldsDiffer == Spec => []NoSequentialDoubleHold
<1>1. IInv => NoSequentialDoubleHold
    BY DEF IInv, SessionInv, RowsAreChosen, AvoidedDiffer, NoSequentialDoubleHold
<1>2. QED
    BY <1>1, Invariance, PTL

(* A confirmation uses another session's hold only if the two sessions' calls overlapped. *)
THEOREM TakeoversAreFair == Spec => []TakenOverFairly
<1>1. IInv => TakenOverFairly
    <2>1. SUFFICES ASSUME IInv, NEW p \in redeemed, via[p[2]] # p[1]
                   PROVE  via[p[2]] \notin standing[p[1]]
        BY DEF TakenOverFairly
    <2>2. p[2] \in Requests /\ found[p[2]] = p[1] /\ rpc[p[2]] # "idle"
        BY <2>1 DEF IInv, TypeOK, HoldInv, RedeemedIsUsed, Late
    <2>3. QED
        BY <2>1, <2>2 DEF IInv, HoldInv, FoundFairly
<1>2. QED
    BY <1>1, Invariance, PTL

(* A finished checkout that created an agreement has billed its first rent. *)
THEOREM CheckoutIsBilled == Spec => []FirstInvoice
<1>1. IInv => FirstInvoice
    BY DEF IInv, BookingInv
<1>2. QED
    BY <1>1, Invariance, PTL

-----------------------------------------------------------------------------
(* A step that leaves the holds and what they were used for alone stutters. *)
LEMMA Stutters ==
    ASSUME UNCHANGED <<hold, redeemed>>
    PROVE  UNCHANGED <<Register, redeemed>>
BY DEF Register

(* A new entry is computed from the new row, a row that stays keeps its entry. *)
LEMMA RegisterIsPointwise ==
    /\ Register' = [t \in Sessions |-> RegisterOf(hold'[t])]
    /\ Register = [t \in Sessions |-> RegisterOf(hold[t])]
BY DEF Register, RegisterOf

LEMMA StepRefines == IInv /\ [Next]_vars => [HR!Next]_(HR!hrVars)
<1> SUFFICES ASSUME IInv, [Next]_vars
             PROVE  HR!Next \/ UNCHANGED <<Register, redeemed>>
    BY DEF HR!hrVars
<1>0. /\ FoundExists /\ RedeemedIsUsed
      /\ hold \in [Sessions -> {"none", "present", "used", "purged"}]
      /\ redeemed \in SUBSET (Sessions \X Requests)
    BY DEF IInv, TypeOK, HoldInv
<1>1. ASSUME NEW s \in Sessions, PurgeExpired(s)
      PROVE  HR!Next
    <2> DEFINE gone == {t \in Sessions : hold[t] = "present" /\ t \in expired}
    <2>1. \A t \in Sessions : hold'[t] = IF t \in gone THEN "purged" ELSE hold[t]
        BY <1>1 DEF PurgeExpired
    <2>2. \A t \in gone : Register[t] = "issued"
        BY DEF Register, RegisterOf
    <2>3. Register' = [t \in Sessions |-> IF t \in gone THEN "removed" ELSE Register[t]]
        <3>1. ASSUME NEW t \in Sessions
              PROVE  RegisterOf(hold'[t]) = IF t \in gone THEN "removed" ELSE Register[t]
            <4>1. RegisterOf("purged") = "removed"
                BY DEF RegisterOf
            <4>2. Register[t] = RegisterOf(hold[t])
                BY DEF Register
            <4>3. hold'[t] = IF t \in gone THEN "purged" ELSE hold[t]
                BY <2>1
            <4>4. CASE t \in gone
                BY <4>1, <4>3, <4>4
            <4>5. CASE ~(t \in gone)
                BY <4>2, <4>3, <4>5
            <4>6. QED
                BY <4>4, <4>5
        <3>2. QED
            BY <3>1, RegisterIsPointwise
    <2>4. UNCHANGED redeemed
        BY <1>1 DEF PurgeExpired
    <2>5. HR!RemoveAll(gone)
        BY <2>2, <2>3, <2>4 DEF HR!RemoveAll
    <2>6. QED
        BY <2>5 DEF HR!Next
<1>2. ASSUME NEW s \in Sessions, InsertHold(s)
      PROVE  HR!Next
    <2>1. hold[s] = "none" /\ hold' = [hold EXCEPT ![s] = "present"] /\ UNCHANGED redeemed
        BY <1>2 DEF InsertHold
    <2>2. Register[s] = "unissued"
        BY <2>1 DEF Register, RegisterOf
    <2>3. \A t \in Sessions : hold'[t] = IF t = s THEN "present" ELSE hold[t]
        BY <1>0, <2>1
    <2>4. Register' = [Register EXCEPT ![s] = "issued"]
        <3>1. ASSUME NEW t \in Sessions
              PROVE  RegisterOf(hold'[t]) = IF t = s THEN "issued" ELSE Register[t]
            <4>1. RegisterOf("present") = "issued"
                BY DEF RegisterOf
            <4>2. Register[t] = RegisterOf(hold[t])
                BY DEF Register
            <4>3. hold'[t] = IF t = s THEN "present" ELSE hold[t]
                BY <2>3
            <4>4. CASE t = s
                BY <4>1, <4>3, <4>4
            <4>5. CASE ~(t = s)
                BY <4>2, <4>3, <4>5
            <4>6. QED
                BY <4>4, <4>5
        <3>2. QED
            BY <3>1, RegisterIsPointwise
    <2>5. HR!Issue(s)
        BY <2>1, <2>2, <2>4 DEF HR!Issue
    <2>6. QED
        BY <2>5 DEF HR!Next
<1>3. ASSUME NEW r \in Requests, ConsumeHold(r)
      PROVE  HR!Next
    <2>1. /\ rpc[r] = "reserved" /\ hold[found[r]] = "present"
          /\ hold' = [hold EXCEPT ![found[r]] = "used"]
          /\ redeemed' = redeemed \cup {<<found[r], r>>}
        BY <1>3 DEF ConsumeHold
    <2>2. found[r] \in Sessions
        BY <1>0, <2>1 DEF FoundExists
    <2>3. Register[found[r]] = "issued"
        BY <2>1, <2>2 DEF Register, RegisterOf
    <2>4. \A p \in redeemed : p[1] # found[r] /\ p[2] # r
        BY <1>0, <2>1 DEF RedeemedIsUsed, Late
    <2>5. \A t \in Sessions : hold'[t] = IF t = found[r] THEN "used" ELSE hold[t]
        BY <1>0, <2>1
    <2>6. Register' = [Register EXCEPT ![found[r]] = "redeemed"]
        <3>1. ASSUME NEW t \in Sessions
              PROVE  RegisterOf(hold'[t]) = IF t = found[r] THEN "redeemed" ELSE Register[t]
            <4>1. RegisterOf("used") = "redeemed"
                BY DEF RegisterOf
            <4>2. Register[t] = RegisterOf(hold[t])
                BY DEF Register
            <4>3. hold'[t] = IF t = found[r] THEN "used" ELSE hold[t]
                BY <2>5
            <4>4. CASE t = found[r]
                BY <4>1, <4>3, <4>4
            <4>5. CASE ~(t = found[r])
                BY <4>2, <4>3, <4>5
            <4>6. QED
                BY <4>4, <4>5
        <3>2. QED
            BY <3>1, RegisterIsPointwise
    <2>7. HR!Redeem(found[r], r)
        BY <2>1, <2>3, <2>4, <2>6 DEF HR!Redeem
    <2>8. QED
        BY <2>2, <2>7 DEF HR!Next
<1>4. ASSUME NEW s \in Sessions, Expire(s) \/ PickUnit(s) \/ InsertSession(s)
      PROVE  UNCHANGED <<Register, redeemed>>
    BY <1>4, Stutters DEF Expire, PickUnit, InsertSession, holdVars
<1>5. ASSUME NEW r \in Requests,
             \/ FindHold(r) \/ Reserve(r) \/ LoseHold(r) \/ CompleteSession(r) \/ DraftAgreement(r)
             \/ IssueInvoice(r) \/ RecordCommission(r) \/ DeskStep(r)
      PROVE  UNCHANGED <<Register, redeemed>>
    BY <1>5, Stutters
       DEF FindHold, Reserve, LoseHold, CompleteSession, DraftAgreement, IssueInvoice, RecordCommission,
           DeskStep, UpdateStatus, ConfirmReservation, CancelReservation, DraftAtDesk, ConvertReservation, holdVars
<1>6. CASE UNCHANGED vars
    BY <1>6, Stutters DEF vars, holdVars
<1>7. QED
    BY <1>1, <1>2, <1>3, <1>4, <1>5, <1>6 DEF Next, SessionStep, RequestStep

(***************************************************************************)
(* Whatever races between confirmations, lock tokens and purges, a hold    *)
(* is redeemed at most once, and a request redeems at most one hold.       *)
(***************************************************************************)
THEOREM SingleUse == Spec => HoldsAreSingleUse
<1>1. Init => HR!Init
    BY DEF Init, HR!Init, Register, RegisterOf
<1>2. QED
    BY <1>1, StepRefines, Invariance, PTL DEF Spec, HoldsAreSingleUse, HR!Spec
=============================================================================
