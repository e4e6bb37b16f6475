---------------------------- MODULE AccessControl ----------------------------
(***************************************************************************)
(* Door credentials (access-control.service.ts): the row of each agreement *)
(* and the key behind it at the vendor of the locks, which is another      *)
(* system and is told before the row is written.  A locker is one call of  *)
(* suspendCredential or restoreCredential, or the handler of an invoice    *)
(* event, which calls them for a list of agreements one after the other.   *)
(***************************************************************************)
EXTENDS Integers, FiniteSets

CONSTANTS
    Agreements,
    Tenants,
    TenantOf,      \* the tenant of each agreement
    Lockers,       \* concurrent suspensions and restorations
    MaxEvents,     \* bound: events of operators, invoice events, and failures
    NoAgreement

ASSUME TenantOfAssumption == TenantOf \in [Agreements -> Tenants]
ASSUME NoAgreementAssumption == NoAgreement \notin Agreements
ASSUME MaxEventsAssumption == MaxEvents \in Nat

VARIABLES
    row,        \* the status of the AccessCredential row of each agreement
    lock,       \* the state, at the vendor, of the key that the row names
    released,   \* agreements whose row is released to the tenant
    lpc, mode, todo, lon,  \* lockers: position, what they do, for whom, and whose row they have read
    heard,      \* lockers that are handlers of an invoice event, for which nobody waits
    \* history and bounds
    debtors,    \* tenants who had an overdue invoice
    deskLocked, \* agreements an operator has suspended
    clashed,    \* agreements with a suspension and a restoration at once
    torn,       \* agreements a locker stopped on between the vendor and the row
    events

keyVars == <<row, lock, released>>
lockerVars == <<lpc, mode, todo, lon, heard>>
lockHistory == <<debtors, deskLocked, clashed, torn>>
doorVars == <<keyVars, lockerVars, lockHistory>>
accessVars == <<doorVars, events>>

AccessTypeOK ==
    /\ row \in [Agreements -> {"none", "active", "suspended"}]
    /\ lock \in [Agreements -> {"none", "open", "shut"}]
    /\ released \in SUBSET Agreements
    /\ lpc \in [Lockers -> {"idle", "read", "vendor", "write"}]
    /\ mode \in [Lockers -> {"suspend", "restore"}]
    /\ todo \in [Lockers -> SUBSET Agreements]
    /\ lon \in [Lockers -> Agreements \cup {NoAgreement}]
    /\ heard \in SUBSET Lockers
    /\ debtors \in SUBSET Tenants
    /\ deskLocked \in SUBSET Agreements
    /\ clashed \in SUBSET Agreements
    /\ torn \in SUBSET Agreements
    /\ events \in 0..MaxEvents

AccessInit ==
    /\ row = [a \in Agreements |-> "none"]
    /\ lock = [a \in Agreements |-> "none"]
    /\ released = {}
    /\ lpc = [l \in Lockers |-> "idle"]
    /\ mode = [l \in Lockers |-> "suspend"]
    /\ todo = [l \in Lockers |-> {}]
    /\ lon = [l \in Lockers |-> NoAgreement]
    /\ heard = {}
    /\ debtors = {} /\ deskLocked = {} /\ clashed = {} /\ torn = {}
    /\ events = 0

-----------------------------------------------------------------------------
(***************************************************************************)
(* issueCredential: the vendor makes a key, then the row is created.  The  *)
(* row is unique per agreement: of two that issue, the second one throws   *)
(* and its key, which no row names, is left at the vendor.                 *)
(***************************************************************************)
CanCreate(a) == row[a] = "none"

CreateRow(a) ==
    /\ row' = [row EXCEPT ![a] = "active"]
    /\ lock' = [lock EXCEPT ![a] = "open"]

(* releaseCredential. *)
Release(a) ==
    /\ row[a] # "none"
    /\ released' = released \cup {a}

-----------------------------------------------------------------------------
Happens == events < MaxEvents /\ events' = events + 1

StartLocker(l, m, agreements) ==
    /\ lpc[l] = "idle"
    /\ Happens
    /\ lpc' = [lpc EXCEPT ![l] = IF agreements = {} THEN "idle" ELSE "read"]
    /\ mode' = [mode EXCEPT ![l] = m]
    /\ todo' = [todo EXCEPT ![l] = agreements]
    /\ UNCHANGED <<keyVars, lon, clashed, torn>>

(* The operator's endpoints, for one agreement. *)
DeskLock(l, m, a) ==
    /\ StartLocker(l, m, {a})
    /\ deskLocked' = IF m = "suspend" THEN deskLocked \cup {a} ELSE deskLocked
    /\ heard' = heard \ {l}
    /\ UNCHANGED debtors

(***************************************************************************)
(* The agreements that the invoice handlers find among the active ones.    *)
(* An invoice has no tenantId, so INVOICE_OVERDUE filters by an undefined  *)
(* tenant, which is no filter, and INVOICE_PAID by the empty one.          *)
(***************************************************************************)
Reach(m, active) == IF m = "suspend" THEN active ELSE {}

InvoiceEvent(l, m, tenant, active) ==
    /\ StartLocker(l, m, Reach(m, active))
    /\ debtors' = IF m = "suspend" THEN debtors \cup {tenant} ELSE debtors
    /\ heard' = heard \cup {l}
    /\ UNCHANGED deskLocked

Opposed(l, a) == \E k \in Lockers : lon[k] = a /\ mode[k] # mode[l]

(***************************************************************************)
(* One round of a locker: read the row, and leave it if it is in the right *)
(* state already; else tell the vendor, then write the row.                *)
(***************************************************************************)
AfterRound(l, a) ==
    /\ todo' = [todo EXCEPT ![l] = @ \ {a}]
    /\ lpc' = [lpc EXCEPT ![l] = IF todo[l] = {a} THEN "idle" ELSE "read"]
    /\ lon' = [lon EXCEPT ![l] = NoAgreement]

HasWork(l, a) == row[a] = (IF mode[l] = "suspend" THEN "active" ELSE "suspended")

SkipRow(l) ==
    /\ lpc[l] = "read"
    /\ \E a \in todo[l] : ~HasWork(l, a) /\ AfterRound(l, a)
    /\ UNCHANGED <<keyVars, mode, heard, lockHistory, events>>

ReadRow(l) ==
    /\ lpc[l] = "read"
    /\ \E a \in todo[l] :
         /\ HasWork(l, a)
         /\ lon' = [lon EXCEPT ![l] = a]
         /\ clashed' = IF Opposed(l, a) THEN clashed \cup {a} ELSE clashed
    /\ lpc' = [lpc EXCEPT ![l] = "vendor"]
    /\ UNCHANGED <<keyVars, mode, todo, heard, debtors, deskLocked, torn, events>>

TellVendor(l) ==
    /\ lpc[l] = "vendor"
    /\ lock' = [lock EXCEPT ![lon[l]] = IF mode[l] = "suspend" THEN "shut" ELSE "open"]
    /\ lpc' = [lpc EXCEPT ![l] = "write"]
    /\ UNCHANGED <<row, released, mode, todo, lon, heard, lockHistory, events>>

(* Faulty variant: the handler returns before it writes the row. *)
WriteRow_Omitted(l) ==
    /\ lpc[l] = "write"
    /\ AfterRound(l, lon[l])
    /\ UNCHANGED <<keyVars, mode, heard, lockHistory, events>>

WriteRow(l) ==
    /\ lpc[l] = "write"
    /\ row' = [row EXCEPT ![lon[l]] = IF mode[l] = "suspend" THEN "suspended" ELSE "active"]
    /\ AfterRound(l, lon[l])
    /\ UNCHANGED <<lock, released, mode, heard, lockHistory, events>>

LockerStep(l) == SkipRow(l) \/ ReadRow(l) \/ TellVendor(l) \/ WriteRow(l)

(***************************************************************************)
(* Some lockers stop where they are, because a statement of theirs throws  *)
(* or their process dies: the vendor may have been told, the row not.      *)
(***************************************************************************)
LockersStop(dead) ==
    /\ torn' = torn \cup {lon[l] : l \in {k \in dead : lpc[k] = "write"}}
    /\ lpc' = [l \in Lockers |-> IF l \in dead THEN "idle" ELSE lpc[l]]
    /\ todo' = [l \in Lockers |-> IF l \in dead THEN {} ELSE todo[l]]
    /\ lon' = [l \in Lockers |-> IF l \in dead THEN NoAgreement ELSE lon[l]]
    /\ UNCHANGED <<mode, heard, debtors, deskLocked, clashed>>

-----------------------------------------------------------------------------
(***************************************************************************)
(* What the row says of a credential is what the vendor's key does, when   *)
(* nobody is at work on it: several suspensions, several restorations and  *)
(* issuers may overlap, fail at the vendor or die, as long as no           *)
(* suspension overlapped a restoration and none stopped in between.        *)
(***************************************************************************)
LockAgrees ==
    \A a \in Agreements \ (clashed \cup torn) :
        (\A l \in Lockers : lon[l] # a) =>
            /\ row[a] = "none" <=> lock[a] = "none"
            /\ row[a] = "suspended" <=> lock[a] = "shut"

(***************************************************************************)
(* The build specification says "Overdue tenant access can be marked       *)
(* suspended": nobody else's is, unless an operator does it.               *)
(***************************************************************************)
OnlyDebtorsAreLockedOut ==
    \A a \in Agreements : lock[a] = "shut" => TenantOf[a] \in debtors \/ a \in deskLocked
=============================================================================
