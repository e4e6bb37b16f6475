----------------------------- MODULE InvoiceRun -----------------------------
(***************************************************************************)
(* The invoices of one month (invoice-run.service.ts).  A run, which a job *)
(* starts for everybody or an operator for one organisation, goes through  *)
(* the active agreements, and for one without an invoice draws a number,   *)
(* creates the invoice, its lines and its document, statement by           *)
(* statement; runs may overlap.  Numbers are drawn per organisation and    *)
(* year and do not name the organisation (invoice-number.service.ts), but  *)
(* the column of the numbers is unique over all organisations.  A tenant   *)
(* from before the platform is imported in one transaction, with a paid    *)
(* invoice for each month that is paid already.                            *)
(***************************************************************************)
EXTENDS Integers, FiniteSets

CONSTANTS
    Agreements,
    Organisations,
    OrganisationOf,   \* of each agreement
    Legacy,           \* agreements that an import may create
    Runs,
    ScopeOf,          \* the organisations that each run is for
    MaxInvoiceEvents, \* bound: runs started, imports, failures, stops
    NoAgreement

VARIABLES
    active,   \* agreements that are active and billed monthly
    created,  \* agreements with an invoice of the month
    number,   \* its number, 0 for none
    lines,    \* how often its lines have been written
    document, \* whether it has its document
    drawn,    \* numbers drawn by each organisation: nextNumber - 1
    rpc, todo, ron, rnumber, \* runs: position, agreements to do, the one in hand, its number
    \* history and bound
    listed,   \* agreements that some run has found active
    crossed,  \* agreements that two runs had in hand at once
    broken,   \* agreements that a run failed on, or stopped before
    refused,  \* agreements whose number another organisation had used
    invoiceEvents

invoiceVars == <<active, created, number, lines, document, drawn>>
runVars == <<rpc, todo, ron, rnumber>>
invoiceHistory == <<listed, crossed, broken, refused>>
vars == <<invoiceVars, runVars, invoiceHistory, invoiceEvents>>

TypeOK ==
    /\ {active, created, document} \subseteq SUBSET Agreements
    /\ number \in [Agreements -> Nat]
    /\ lines \in [Agreements -> Nat]
    /\ drawn \in [Organisations -> Nat]
    /\ rpc \in [Runs -> {"idle", "check", "number", "row", "lines", "document"}]
    /\ todo \in [Runs -> SUBSET Agreements]
    /\ ron \in [Runs -> Agreements \cup {NoAgreement}]
    /\ rnumber \in [Runs -> Nat]
    /\ {listed, crossed, broken, refused} \subseteq SUBSET Agreements
    /\ invoiceEvents \in 0..MaxInvoiceEvents

Init ==
    /\ active = Agreements \ Legacy
    /\ created = {} /\ document = {}
    /\ number = [a \in Agreements |-> 0]
    /\ lines = [a \in Agreements |-> 0]
    /\ drawn = [o \in Organisations |-> 0]
    /\ rpc = [r \in Runs |-> "idle"]
    /\ todo = [r \in Runs |-> {}]
    /\ ron = [r \in Runs |-> NoAgreement]
    /\ rnumber = [r \in Runs |-> 0]
    /\ listed = {} /\ crossed = {} /\ broken = {} /\ refused = {}
    /\ invoiceEvents = 0

Happens == invoiceEvents < MaxInvoiceEvents /\ invoiceEvents' = invoiceEvents + 1

Goto(r, where) == rpc' = [rpc EXCEPT ![r] = where] /\ UNCHANGED <<todo, ron>>

(* The agreements still to do get smaller by the one that is done. *)
NextAgreement(r, a) ==
    /\ todo' = [todo EXCEPT ![r] = @ \ {a}]
    /\ rpc' = [rpc EXCEPT ![r] = IF todo[r] \ {a} = {} THEN "idle" ELSE "check"]
    /\ ron' = [ron EXCEPT ![r] = NoAgreement]

-----------------------------------------------------------------------------
Begin(r) ==
    LET found == {a \in active : OrganisationOf[a] \in ScopeOf[r]}
    IN  /\ rpc[r] = "idle"
        /\ Happens
        /\ todo' = [todo EXCEPT ![r] = found]
        /\ rpc' = [rpc EXCEPT ![r] = IF found = {} THEN "idle" ELSE "check"]
        /\ listed' = listed \cup found
        /\ UNCHANGED <<invoiceVars, ron, rnumber, crossed, broken, refused>>

Skip(r) ==
    /\ rpc[r] = "check"
    /\ \E a \in todo[r] \cap created : NextAgreement(r, a)
    /\ UNCHANGED <<invoiceVars, rnumber, invoiceHistory, invoiceEvents>>

TakeUp(r, a) ==
    /\ ron' = [ron EXCEPT ![r] = a]
    /\ rpc' = [rpc EXCEPT ![r] = "number"]
    /\ crossed' = IF \E q \in Runs : ron[q] = a THEN crossed \cup {a} ELSE crossed
    /\ UNCHANGED <<invoiceVars, todo, rnumber, listed, broken, refused, invoiceEvents>>

(* Faulty variant: an invoice that exists is not looked for, the unique index is relied on. *)
Check_Omitted(r) == rpc[r] = "check" /\ \E a \in todo[r] : TakeUp(r, a)

Check(r) == rpc[r] = "check" /\ \E a \in todo[r] \ created : TakeUp(r, a)

(* Faulty variant: the first call creates the sequence as it stands before the call. *)
DrawNumber_FromZero(r) ==
    LET o == OrganisationOf[ron[r]]
    IN  /\ rpc[r] = "number"
        /\ drawn' = [drawn EXCEPT ![o] = @ + 1]
        /\ rnumber' = [rnumber EXCEPT ![r] = drawn[o]]
        /\ Goto(r, "row")
        /\ UNCHANGED <<active, created, number, lines, document, invoiceHistory, invoiceEvents>>

DrawNumber(r) ==
    LET o == OrganisationOf[ron[r]]
    IN  /\ rpc[r] = "number"
        /\ drawn' = [drawn EXCEPT ![o] = @ + 1]
        /\ rnumber' = [rnumber EXCEPT ![r] = drawn[o] + 1]
        /\ Goto(r, "row")
        /\ UNCHANGED <<active, created, number, lines, document, invoiceHistory, invoiceEvents>>

(* The upsert: an invoice that exists by now is taken as it is, and the number is lost. *)
InUse(n) == \E a \in created : number[a] = n

UpsertInvoice(r) ==
    LET a == ron[r]
    IN  /\ rpc[r] = "row"
        /\ IF a \in created \/ ~InUse(rnumber[r])
           THEN /\ created' = created \cup {a}
                /\ number' = IF a \in created THEN number ELSE [number EXCEPT ![a] = rnumber[r]]
                /\ Goto(r, "lines")
                /\ UNCHANGED refused
           ELSE /\ NextAgreement(r, a)
                /\ refused' = refused \cup {a}
                /\ UNCHANGED <<created, number>>
        /\ rnumber' = [rnumber EXCEPT ![r] = 0]
        /\ UNCHANGED <<active, lines, document, drawn, listed, crossed, broken, invoiceEvents>>

(* No index makes lines unique: skipDuplicates skips nothing. *)
WriteLines(r) ==
    /\ rpc[r] = "lines"
    /\ lines' = [lines EXCEPT ![ron[r]] = @ + 1]
    /\ Goto(r, "document")
    /\ UNCHANGED <<active, created, number, document, drawn, rnumber, invoiceHistory, invoiceEvents>>

StoreDocument(r) ==
    /\ rpc[r] = "document"
    /\ document' = document \cup {ron[r]}
    /\ NextAgreement(r, ron[r])
    /\ UNCHANGED <<active, created, number, lines, drawn, rnumber, invoiceHistory, invoiceEvents>>

InHand(r) == ron[r] # NoAgreement

(* A statement throws: the error is caught and the run goes on with the next agreement. *)
Fail(r) ==
    /\ InHand(r)
    /\ Happens
    /\ NextAgreement(r, ron[r])
    /\ broken' = broken \cup {ron[r]}
    /\ rnumber' = [rnumber EXCEPT ![r] = 0]
    /\ UNCHANGED <<invoiceVars, listed, crossed, refused>>

(* The process dies. *)
Stop(r) ==
    /\ rpc[r] # "idle"
    /\ Happens
    /\ rpc' = [rpc EXCEPT ![r] = "idle"]
    /\ todo' = [todo EXCEPT ![r] = {}]
    /\ ron' = [ron EXCEPT ![r] = NoAgreement]
    /\ rnumber' = [rnumber EXCEPT ![r] = 0]
    /\ broken' = broken \cup todo[r]
    /\ UNCHANGED <<invoiceVars, listed, crossed, refused>>

(* importExistingTenant, one transaction; the month may be among those already paid. *)
Import(a) ==
    /\ a \in Legacy \ active
    /\ Happens
    /\ active' = active \cup {a}
    /\ \/ created' = created \cup {a} /\ lines' = [lines EXCEPT ![a] = 1]
       \/ UNCHANGED <<created, lines>>
    /\ UNCHANGED <<number, document, drawn, runVars, invoiceHistory>>

RunStep(r) ==
    \/ Begin(r) \/ Skip(r) \/ Check(r)
    \/ DrawNumber(r) \/ UpsertInvoice(r) \/ WriteLines(r) \/ StoreDocument(r)
    \/ Fail(r) \/ Stop(r)

Next == (\E r \in Runs : RunStep(r)) \/ (\E a \in Legacy : Import(a))

Spec == Init /\ [][Next]_vars
-----------------------------------------------------------------------------
AtRest(a) == \A r \in Runs : a \notin todo[r]

(***************************************************************************)
(* However often runs and imports come, and in whatever order, an          *)
(* agreement is billed once: when no run has it before it any more, its    *)
(* invoice has one set of lines and, unless it was imported, a number and  *)
(* a document, and if a run had found the agreement active, there is an    *)
(* invoice; unless two runs had the agreement in hand at once, one failed  *)
(* or stopped on it, or its number was refused.                            *)
(***************************************************************************)
BilledOnce ==
    \A a \in Agreements \ (crossed \cup broken \cup refused) :
        AtRest(a) =>
            /\ a \in created => lines[a] = 1 /\ (number[a] # 0 <=> a \in document)
            /\ a \in listed => a \in created
            /\ a \in created \ Legacy => a \in document

Numbers(o) == {number[a] : a \in {b \in created : OrganisationOf[b] = o /\ number[b] # 0}}
NumbersInHand(o) == {rnumber[r] : r \in {q \in Runs : rpc[q] = "row" /\ OrganisationOf[ron[q]] = o}}

(***************************************************************************)
(* The numbers of an organisation have no gaps: each one that was drawn is *)
(* on an invoice or in the hands of a run, unless two runs had one of its  *)
(* agreements in hand at once, one failed or stopped, or a number was      *)
(* refused.  And no number is drawn that was not there to draw.            *)
(***************************************************************************)
NumbersHaveNoGaps ==
    \A o \in Organisations :
        /\ Numbers(o) \cup NumbersInHand(o) \subseteq 1..drawn[o]
        /\ (\A a \in crossed \cup broken \cup refused : OrganisationOf[a] # o) =>
               1..drawn[o] \subseteq Numbers(o) \cup NumbersInHand(o)
=============================================================================
