------------------------- MODULE InvoiceRun_proofs -------------------------
(***************************************************************************)
(* Proofs about the monthly invoice run, for any number of agreements,     *)
(* organisations and runs, however they overlap, fail and stop.            *)
(***************************************************************************)
EXTENDS Office, TLAPS

Spoilt == crossedRuns \cup broken \cup refused

(* Where a run is tells what it has in hand. *)
HandFits ==
    \A r \in Runs :
        /\ ron[r] # NoAgreement => ron[r] \in todo[r] /\ rpc[r] \in {"number", "row", "lines", "document"}
        /\ ron[r] = NoAgreement => rpc[r] \in {"idle", "check"}
        /\ rpc[r] = "idle" => todo[r] = {}
        /\ rpc[r] = "row" => rnumber[r] # 0

(* Nothing happens to an agreement that is not active yet. *)
Untouched(a) == a \notin created \cup document /\ lines[a] = 0 /\ number[a] = 0

ActiveFirst ==
    /\ \A a \in Agreements : a \notin active => Untouched(a) /\ a \notin listed
    /\ \A r \in Runs : todo[r] \subseteq listed

OneHand == \A r, q \in Runs : ron[r] = ron[q] /\ ron[r] \in Agreements \ crossedRuns => r = q

(* How far the run that has an agreement in hand has got tells what has been written. *)
HandTells ==
    \A r \in Runs : ron[r] \in Agreements \ Spoilt =>
        /\ rpc[r] \in {"number", "row"} => Untouched(ron[r])
        /\ rpc[r] \in {"lines", "document"} =>
               /\ ron[r] \in created \ document /\ number[ron[r]] # 0
               /\ lines[ron[r]] = (IF rpc[r] = "lines" THEN 0 ELSE 1)

InSomeHand(a) == \E r \in Runs : ron[r] = a

(* Other agreements have their invoice with all that belongs to it, or nothing. *)
RestTells ==
    \A a \in Agreements \ Spoilt : ~InSomeHand(a) =>
        /\ a \notin created => Untouched(a)
        /\ a \in created =>
               lines[a] = 1 /\ (number[a] # 0 <=> a \in document) /\ (a \notin Legacy => a \in document)

ListedIsDone == \A a \in listed \ Spoilt : a \notin created => \E r \in Runs : a \in todo[r]

RunInv ==
    /\ Billing!TypeOK
    /\ HandFits /\ ActiveFirst /\ OneHand /\ HandTells /\ RestTells /\ ListedIsDone

LEMMA RunInit == Billing!Init => RunInv
<1> SUFFICES ASSUME Billing!Init
             PROVE  RunInv
    OBVIOUS
<1> USE LegacyAssumption DEF Billing!Init
<1>1. Billing!TypeOK
    <2>1. {active, created, document} \subseteq SUBSET Agreements
        OBVIOUS
    <2>2. {listed, crossedRuns, broken, refused} \subseteq SUBSET Agreements
        OBVIOUS
    <2>3. invoiceEvents \in 0..MaxInvoiceEvents
        BY MaxInvoiceEventsAssumption
    <2>4. QED
        BY <2>1, <2>2, <2>3 DEF Billing!TypeOK
<1>2. HandFits /\ OneHand /\ HandTells
    BY DEF HandFits, OneHand, HandTells
<1>3. ActiveFirst /\ RestTells /\ ListedIsDone
    BY DEF ActiveFirst, RestTells, ListedIsDone, Untouched
<1>4. QED
    BY <1>1, <1>2, <1>3 DEF RunInv

LEMMA RunKeepsInv ==
    ASSUME RunInv, NEW r \in Runs, Billing!RunStep(r)
    PROVE  RunInv'
<1> USE OrganisationOfAssumption, LegacyAssumption, MaxInvoiceEventsAssumption
    DEF Billing!Happens, Billing!Goto, Billing!NextAgreement, Billing!invoiceVars, Billing!runVars,
        Billing!invoiceHistory, Billing!InHand
<1>0. Billing!TypeOK /\ HandFits /\ ActiveFirst /\ OneHand /\ HandTells /\ RestTells /\ ListedIsDone
    BY DEF RunInv
<1>1. CASE Billing!Begin(r)
    <2>1. Billing!TypeOK'
        BY <1>0, <1>1 DEF Billing!Begin, Billing!TypeOK, HandFits, ActiveFirst
    <2>2. HandFits'
        BY <1>0, <1>1 DEF Billing!Begin, Billing!TypeOK, HandFits
    <2>3. ActiveFirst'
        BY <1>0, <1>1 DEF Billing!Begin, Billing!TypeOK, HandFits, ActiveFirst, Untouched
    <2>4. OneHand'
        BY <1>0, <1>1 DEF Billing!Begin, Billing!TypeOK, HandFits, OneHand
    <2>5. HandTells'
        BY <1>0, <1>1 DEF Billing!Begin, Billing!TypeOK, HandFits, OneHand, HandTells, RestTells, Untouched, InSomeHand, Spoilt
    <2>6. RestTells'
        BY <1>0, <1>1 DEF Billing!Begin, Billing!TypeOK, HandFits, OneHand, HandTells, RestTells, Untouched, InSomeHand, Spoilt
    <2>7. ListedIsDone'
        BY <1>0, <1>1 DEF Billing!Begin, Billing!TypeOK, HandFits, ActiveFirst, ListedIsDone, HandTells, Spoilt
    <2>8. QED
        BY <2>1, <2>2, <2>3, <2>4, <2>5, <2>6, <2>7 DEF RunInv
<1>2. CASE Billing!Skip(r)
    <2>1. Billing!TypeOK'
        BY <1>0, <1>2 DEF Billing!Skip, Billing!TypeOK, HandFits, ActiveFirst
    <2>2. HandFits'
        BY <1>0, <1>2 DEF Billing!Skip, Billing!TypeOK, HandFits
    <2>3. ActiveFirst'
        BY <1>0, <1>2 DEF Billing!Skip, Billing!TypeOK, HandFits, ActiveFirst, Untouched
    <2>4. OneHand'
        BY <1>0, <1>2 DEF Billing!Skip, Billing!TypeOK, HandFits, OneHand
    <2>5. HandTells'
        BY <1>0, <1>2 DEF Billing!Skip, Billing!TypeOK, HandFits, OneHand, HandTells, RestTells, Untouched, InSomeHand, Spoilt
    <2>6. RestTells'
        BY <1>0, <1>2 DEF Billing!Skip, Billing!TypeOK, HandFits, OneHand, HandTells, RestTells, Untouched, InSomeHand, Spoilt
    <2>7. ListedIsDone'
        BY <1>0, <1>2 DEF Billing!Skip, Billing!TypeOK, HandFits, ActiveFirst, ListedIsDone, HandTells, Spoilt
    <2>8. QED
        BY <2>1, <2>2, <2>3, <2>4, <2>5, <2>6, <2>7 DEF RunInv
<1>3. CASE Billing!Check(r)
    <2>1. Billing!TypeOK'
        BY <1>0, <1>3 DEF Billing!Check, Billing!TakeUp, Billing!TypeOK, HandFits, ActiveFirst
    <2>2. HandFits'
        BY <1>0, <1>3 DEF Billing!Check, Billing!TakeUp, Billing!TypeOK, HandFits
    <2>3. ActiveFirst'
        BY <1>0, <1>3 DEF Billing!Check, Billing!TakeUp, Billing!TypeOK, HandFits, ActiveFirst, Untouched
    <2>4. OneHand'
        BY <1>0, <1>3 DEF Billing!Check, Billing!TakeUp, Billing!TypeOK, HandFits, OneHand
    <2>5. HandTells'
        BY <1>0, <1>3 DEF Billing!Check, Billing!TakeUp, Billing!TypeOK, HandFits, OneHand, HandTells, RestTells, Untouched, InSomeHand, Spoilt
    <2>6. RestTells'
        BY <1>0, <1>3 DEF Billing!Check, Billing!TakeUp, Billing!TypeOK, HandFits, OneHand, HandTells, RestTells, Untouched, InSomeHand, Spoilt
    <2>7. ListedIsDone'
        BY <1>0, <1>3 DEF Billing!Check, Billing!TakeUp, Billing!TypeOK, HandFits, ActiveFirst, ListedIsDone, HandTells, Spoilt
    <2>8. QED
        BY <2>1, <2>2, <2>3, <2>4, <2>5, <2>6, <2>7 DEF RunInv
<1>4. CASE Billing!DrawNumber(r)
    <2>1. Billing!TypeOK'
        BY <1>0, <1>4 DEF Billing!DrawNumber, Billing!TypeOK, HandFits, ActiveFirst
    <2>2. HandFits'
        BY <1>0, <1>4 DEF Billing!DrawNumber, Billing!TypeOK, HandFits
    <2>3. ActiveFirst'
        BY <1>0, <1>4 DEF Billing!DrawNumber, Billing!TypeOK, HandFits, ActiveFirst, Untouched
    <2>4. OneHand'
        BY <1>0, <1>4 DEF Billing!DrawNumber, Billing!TypeOK, HandFits, OneHand
    <2>5. HandTells'
        BY <1>0, <1>4 DEF Billing!DrawNumber, Billing!TypeOK, HandFits, OneHand, HandTells, RestTells, Untouched, InSomeHand, Spoilt
    <2>6. RestTells'
        BY <1>0, <1>4 DEF Billing!DrawNumber, Billing!TypeOK, HandFits, OneHand, HandTells, RestTells, Untouched, InSomeHand, Spoilt
    <2>7. ListedIsDone'
        BY <1>0, <1>4 DEF Billing!DrawNumber, Billing!TypeOK, HandFits, ActiveFirst, ListedIsDone, HandTells, Spoilt
    <2>8. QED
        BY <2>1, <2>2, <2>3, <2>4, <2>5, <2>6, <2>7 DEF RunInv
<1>5. CASE Billing!UpsertInvoice(r)
    <2>1. Billing!TypeOK'
        BY <1>0, <1>5 DEF Billing!UpsertInvoice, Billing!TypeOK, HandFits, ActiveFirst
    <2>2. HandFits'
        BY <1>0, <1>5 DEF Billing!UpsertInvoice, Billing!TypeOK, HandFits
    <2>3. ActiveFirst'
        BY <1>0, <1>5 DEF Billing!UpsertInvoice, Billing!TypeOK, HandFits, ActiveFirst, Untouched
    <2>4. OneHand'
        BY <1>0, <1>5 DEF Billing!UpsertInvoice, Billing!TypeOK, HandFits, OneHand
    <2>5. HandTells'
        BY <1>0, <1>5 DEF Billing!UpsertInvoice, Billing!TypeOK, HandFits, OneHand, HandTells, RestTells, Untouched, InSomeHand, Spoilt
    <2>6. RestTells'
        BY <1>0, <1>5 DEF Billing!UpsertInvoice, Billing!TypeOK, HandFits, OneHand, HandTells, RestTells, Untouched, InSomeHand, Spoilt
    <2>7. ListedIsDone'
        BY <1>0, <1>5 DEF Billing!UpsertInvoice, Billing!TypeOK, HandFits, ActiveFirst, ListedIsDone, HandTells, Spoilt
    <2>8. QED
        BY <2>1, <2>2, <2>3, <2>4, <2>5, <2>6, <2>7 DEF RunInv
<1>6. CASE Billing!WriteLines(r)
    <2>1. Billing!TypeOK'
        BY <1>0, <1>6 DEF Billing!WriteLines, Billing!TypeOK, HandFits, ActiveFirst
    <2>2. HandFits'
        BY <1>0, <1>6 DEF Billing!WriteLines, Billing!TypeOK, HandFits
    <2>3. ActiveFirst'
        BY <1>0, <1>6 DEF Billing!WriteLines, Billing!TypeOK, HandFits, ActiveFirst, Untouched
    <2>4. OneHand'
        BY <1>0, <1>6 DEF Billing!WriteLines, Billing!TypeOK, HandFits, OneHand
    <2>5. HandTells'
        BY <1>0, <1>6 DEF Billing!WriteLines, Billing!TypeOK, HandFits, OneHand, HandTells, RestTells, Untouched, InSomeHand, Spoilt
    <2>6. RestTells'
        BY <1>0, <1>6 DEF Billing!WriteLines, Billing!TypeOK, HandFits, OneHand, HandTells, RestTells, Untouched, InSomeHand, Spoilt
    <2>7. ListedIsDone'
        BY <1>0, <1>6 DEF Billing!WriteLines, Billing!TypeOK, HandFits, ActiveFirst, ListedIsDone, HandTells, Spoilt
    <2>8. QED
        BY <2>1, <2>2, <2>3, <2>4, <2>5, <2>6, <2>7 DEF RunInv
<1>7. CASE Billing!StoreDocument(r)
    <2>1. Billing!TypeOK'
        BY <1>0, <1>7 DEF Billing!StoreDocument, Billing!TypeOK, HandFits, ActiveFirst
    <2>2. HandFits'
        BY <1>0, <1>7 DEF Billing!StoreDocument, Billing!TypeOK, HandFits
    <2>3. ActiveFirst'
        BY <1>0, <1>7 DEF Billing!StoreDocument, Billing!TypeOK, HandFits, ActiveFirst, Untouched
    <2>4. OneHand'
        BY <1>0, <1>7 DEF Billing!StoreDocument, Billing!TypeOK, HandFits, OneHand
    <2>5. HandTells'
        BY <1>0, <1>7 DEF Billing!StoreDocument, Billing!TypeOK, HandFits, OneHand, HandTells, RestTells, Untouched, InSomeHand, Spoilt
    <2>6. RestTells'
        BY <1>0, <1>7 DEF Billing!StoreDocument, Billing!TypeOK, HandFits, OneHand, HandTells, RestTells, Untouched, InSomeHand, Spoilt
    <2>7. ListedIsDone'
        BY <1>0, <1>7 DEF Billing!StoreDocument, Billing!TypeOK, HandFits, ActiveFirst, ListedIsDone, HandTells, Spoilt
    <2>8. QED
        BY <2>1, <2>2, <2>3, <2>4, <2>5, <2>6, <2>7 DEF RunInv
<1>8. CASE Billing!Fail(r)
    <2>1. Billing!TypeOK'
        BY <1>0, <1>8 DEF Billing!Fail, Billing!TypeOK, HandFits, ActiveFirst
    <2>2. HandFits'
        BY <1>0, <1>8 DEF Billing!Fail, Billing!TypeOK, HandFits
    <2>3. ActiveFirst'
        BY <1>0, <1>8 DEF Billing!Fail, Billing!TypeOK, HandFits, ActiveFirst, Untouched
    <2>4. OneHand'
        BY <1>0, <1>8 DEF Billing!Fail, Billing!TypeOK, HandFits, OneHand
    <2>5. HandTells'
        BY <1>0, <1>8 DEF Billing!Fail, Billing!TypeOK, HandFits, OneHand, HandTells, RestTells, Untouched, InSomeHand, Spoilt
    <2>6. RestTells'
        BY <1>0, <1>8 DEF Billing!Fail, Billing!TypeOK, HandFits, OneHand, HandTells, RestTells, Untouched, InSomeHand, Spoilt
    <2>7. ListedIsDone'
        BY <1>0, <1>8 DEF Billing!Fail, Billing!TypeOK, HandFits, ActiveFirst, ListedIsDone, HandTells, Spoilt
    <2>8. QED
        BY <2>1, <2>2, <2>3, <2>4, <2>5, <2>6, <2>7 DEF RunInv
<1>9. CASE Billing!Stop(r)
    <2>1. Billing!TypeOK'
        BY <1>0, <1>9 DEF Billing!Stop, Billing!TypeOK, HandFits, ActiveFirst
    <2>2. HandFits'
        BY <1>0, <1>9 DEF Billing!Stop, Billing!TypeOK, HandFits
    <2>3. ActiveFirst'
        BY <1>0, <1>9 DEF Billing!Stop, Billing!TypeOK, HandFits, ActiveFirst, Untouched
    <2>4. OneHand'
        BY <1>0, <1>9 DEF Billing!Stop, Billing!TypeOK, HandFits, OneHand
    <2>5. HandTells'
        BY <1>0, <1>9 DEF Billing!Stop, Billing!TypeOK, HandFits, OneHand, HandTells, RestTells, Untouched, InSomeHand, Spoilt
    <2>6. RestTells'
        BY <1>0, <1>9 DEF Billing!Stop, Billing!TypeOK, HandFits, OneHand, HandTells, RestTells, Untouched, InSomeHand, Spoilt
    <2>7. ListedIsDone'
        BY <1>0, <1>9 DEF Billing!Stop, Billing!TypeOK, HandFits, ActiveFirst, ListedIsDone, HandTells, Spoilt
    <2>8. QED
        BY <2>1, <2>2, <2>3, <2>4, <2>5, <2>6, <2>7 DEF RunInv
<1>10. QED
    BY <1>1, <1>2, <1>3, <1>4, <1>5, <1>6, <1>7, <1>8, <1>9 DEF Billing!RunStep

LEMMA ImportKeepsInv ==
    ASSUME RunInv, NEW a \in Legacy, Billing!Import(a)
    PROVE  RunInv'
<1> USE LegacyAssumption, MaxInvoiceEventsAssumption
    DEF Billing!Import, Billing!Happens, Billing!runVars, Billing!invoiceHistory, RunInv, Billing!TypeOK
<1>1. Billing!TypeOK'
    OBVIOUS
<1>2. HandFits' /\ OneHand'
    BY DEF HandFits, OneHand
<1>3. ActiveFirst'
    BY DEF ActiveFirst, Untouched
<1>4. HandTells'
    BY DEF HandTells, ActiveFirst, HandFits, Untouched, Spoilt
<1>5. RestTells'
    BY DEF RestTells, ActiveFirst, Untouched, InSomeHand, Spoilt
<1>6. ListedIsDone'
    BY DEF ListedIsDone, Spoilt
<1>7. QED
    BY <1>1, <1>2, <1>3, <1>4, <1>5, <1>6

LEMMA RunNext == RunInv /\ [Next]_sceneVars => RunInv'
<1> SUFFICES ASSUME RunInv, [Next]_sceneVars
             PROVE  RunInv'
    OBVIOUS
<1>1. CASE Billing!Next
    BY <1>1, RunKeepsInv, ImportKeepsInv DEF Billing!Next
<1>2. CASE UNCHANGED billingVars
    BY <1>2
    DEF billingVars, RunInv, Billing!TypeOK, HandFits, ActiveFirst, OneHand, HandTells, RestTells,
        ListedIsDone, Untouched, InSomeHand, Spoilt
<1>3. QED
    BY <1>1, <1>2 DEF Next, sceneVars

LEMMA RunAlways == Spec => []RunInv
<1>1. Init => RunInv
    BY RunInit DEF Init
<1>2. QED
    BY <1>1, RunNext, PTL DEF Spec

LEMMA InvGivesBilledOnce == RunInv => BilledOnce
<1> SUFFICES ASSUME RunInv, NEW a \in Agreements \ Spoilt, \A r \in Runs : a \notin todo[r]
             PROVE  /\ a \in created => lines[a] = 1 /\ (number[a] # 0 <=> a \in document)
                    /\ a \in listed => a \in created
                    /\ a \in created \ Legacy => a \in document
    BY DEF BilledOnce, Billing!BilledOnce, Billing!AtRest, Spoilt
<1>1. ~InSomeHand(a)
    BY LegacyAssumption DEF RunInv, HandFits, InSomeHand
<1>2. QED
    BY <1>1 DEF RunInv, RestTells, ListedIsDone

(***************************************************************************)
(* An agreement that no run has before it any more is billed once, unless  *)
(* two runs had it in hand at once, one failed or stopped on it, or its    *)
(* number was refused; for any number of runs.                             *)
(***************************************************************************)
THEOREM BilledOnceHolds == Spec => []BilledOnce
BY RunAlways, InvGivesBilledOnce, PTL
-----------------------------------------------------------------------------
OnInvoice(o, n) == \E a \in created : OrganisationOf[a] = o /\ number[a] = n /\ n # 0
OnItsWay(o, n) == \E r \in Runs : rpc[r] = "row" /\ OrganisationOf[ron[r]] = o /\ rnumber[r] = n

NumbersAreDrawn ==
    /\ \A a \in Agreements : number[a] <= drawn[OrganisationOf[a]]
    /\ \A r \in Runs : rpc[r] = "row" => rnumber[r] \in 1..drawn[OrganisationOf[ron[r]]]

NoneIsLost ==
    \A o \in Organisations :
        (\A a \in Spoilt : OrganisationOf[a] # o) => \A n \in 1..drawn[o] : OnInvoice(o, n) \/ OnItsWay(o, n)

NumberInv == RunInv /\ NumbersAreDrawn /\ NoneIsLost

LEMMA RunKeepsNumbers ==
    ASSUME NumberInv, NEW r \in Runs, Billing!RunStep(r)
    PROVE  NumbersAreDrawn' /\ NoneIsLost'
<1> USE OrganisationOfAssumption, LegacyAssumption
    DEF Billing!Goto, Billing!NextAgreement, Billing!invoiceVars, Billing!runVars,
        Billing!invoiceHistory, Billing!InHand
<1>0. Billing!TypeOK /\ HandFits /\ HandTells /\ NumbersAreDrawn /\ NoneIsLost
    BY DEF NumberInv, RunInv
<1>c. Billing!TypeOK'
    BY RunKeepsInv DEF NumberInv, RunInv
<1>1. CASE Billing!Begin(r)
    <2>1. NumbersAreDrawn'
        BY <1>0, <1>c, <1>1 DEF Billing!Begin, Billing!TypeOK, HandFits, NumbersAreDrawn
    <2>2. NoneIsLost'
        BY <1>0, <1>1 DEF Billing!Begin, Billing!TypeOK, HandFits, NoneIsLost, OnInvoice, OnItsWay, Spoilt
    <2>3. QED
        BY <2>1, <2>2
<1>2. CASE Billing!Skip(r)
    <2>1. NumbersAreDrawn'
        BY <1>0, <1>c, <1>2 DEF Billing!Skip, Billing!TypeOK, HandFits, NumbersAreDrawn
    <2>2. NoneIsLost'
        BY <1>0, <1>2 DEF Billing!Skip, Billing!TypeOK, HandFits, NoneIsLost, OnInvoice, OnItsWay, Spoilt
    <2>3. QED
        BY <2>1, <2>2
<1>3. CASE Billing!Check(r)
    <2>1. NumbersAreDrawn'
        BY <1>0, <1>c, <1>3 DEF Billing!Check, Billing!TakeUp, Billing!TypeOK, HandFits, NumbersAreDrawn
    <2>2. NoneIsLost'
        BY <1>0, <1>3 DEF Billing!Check, Billing!TakeUp, Billing!TypeOK, HandFits, NoneIsLost, OnInvoice, OnItsWay, Spoilt
    <2>3. QED
        BY <2>1, <2>2
<1>4. CASE Billing!DrawNumber(r)
    <2>1. NumbersAreDrawn'
        BY <1>0, <1>c, <1>4 DEF Billing!DrawNumber, Billing!TypeOK, HandFits, NumbersAreDrawn
    <2>2. SUFFICES ASSUME NEW o \in Organisations, \A a \in Spoilt : OrganisationOf[a] # o, NEW n \in 1..drawn'[o]
                   PROVE  OnInvoice(o, n)' \/ OnItsWay(o, n)'
        <3>1. Spoilt' = Spoilt
            BY <1>4 DEF Billing!DrawNumber, Spoilt
        <3>2. QED
            BY <2>1, <3>1 DEF NoneIsLost
    <2>3. CASE n \in 1..drawn[o]
        <3>1. OnInvoice(o, n) \/ OnItsWay(o, n)
            BY <1>0, <2>2, <2>3 DEF NoneIsLost
        <3>2. OnInvoice(o, n) => OnInvoice(o, n)'
            BY <1>4 DEF Billing!DrawNumber, OnInvoice
        <3>3. OnItsWay(o, n) => OnItsWay(o, n)'
            BY <1>0, <1>4 DEF Billing!DrawNumber, Billing!TypeOK, OnItsWay
        <3>4. QED
            BY <3>1, <3>2, <3>3
    <2>4. CASE n \notin 1..drawn[o]
        <3>1. ron[r] \in Agreements /\ OrganisationOf[ron[r]] \in Organisations
            BY <1>0, <1>4 DEF Billing!DrawNumber, Billing!TypeOK, HandFits
        <3>2. OrganisationOf[ron[r]] = o /\ n = drawn[o] + 1
            BY <1>0, <1>4, <2>4, <3>1 DEF Billing!DrawNumber, Billing!TypeOK
        <3>3. rpc'[r] = "row" /\ rnumber'[r] = n /\ ron' = ron
            BY <1>0, <1>4, <3>2 DEF Billing!DrawNumber, Billing!TypeOK
        <3>4. QED
            BY <3>2, <3>3 DEF OnItsWay
    <2>5. QED
        BY <2>1, <2>3, <2>4
<1>5. CASE Billing!UpsertInvoice(r)
    <2>1. NumbersAreDrawn'
        BY <1>0, <1>c, <1>5 DEF Billing!UpsertInvoice, Billing!TypeOK, HandFits, NumbersAreDrawn
    <2>2. SUFFICES ASSUME NEW o \in Organisations, \A a \in Spoilt' : OrganisationOf[a] # o, NEW n \in 1..drawn[o]
                   PROVE  OnInvoice(o, n)' \/ OnItsWay(o, n)'
        <3>1. drawn' = drawn
            BY <1>5 DEF Billing!UpsertInvoice
        <3>2. QED
            BY <2>1, <3>1 DEF NoneIsLost
    <2>3. OnInvoice(o, n) \/ OnItsWay(o, n)
        BY <1>0, <1>5, <2>2 DEF Billing!UpsertInvoice, NoneIsLost, Spoilt
    <2>4. ron[r] \in Agreements
        BY <1>0, <1>5 DEF Billing!UpsertInvoice, Billing!TypeOK, HandFits
    <2>5. OrganisationOf[ron[r]] = o => ron[r] \notin created /\ ron[r] \in created' /\ number'[ron[r]] = rnumber[r]
        BY <1>0, <1>5, <2>2, <2>4 DEF Billing!UpsertInvoice, Billing!TypeOK, HandTells, Untouched, Spoilt
    <2>6. \A a \in created : a \in created' /\ number'[a] = number[a]
        BY <1>0, <1>5 DEF Billing!UpsertInvoice, Billing!TypeOK
    <2>7. CASE OnInvoice(o, n)
        BY <2>6, <2>7 DEF OnInvoice
    <2>8. CASE OnItsWay(o, n)
        <3>1. PICK q \in Runs : rpc[q] = "row" /\ OrganisationOf[ron[q]] = o /\ rnumber[q] = n
            BY <2>8 DEF OnItsWay
        <3>2. CASE q = r
            <4>1. n # 0
                OBVIOUS
            <4>2. QED
                BY <2>5, <3>1, <3>2, <4>1 DEF OnInvoice
        <3>3. CASE q # r
            <4>1. rpc'[q] = "row" /\ ron'[q] = ron[q] /\ rnumber'[q] = n
                BY <1>0, <1>5, <3>1, <3>3 DEF Billing!UpsertInvoice, Billing!TypeOK
            <4>2. QED
                BY <3>1, <4>1 DEF OnItsWay
        <3>4. QED
            BY <3>2, <3>3
    <2>9. QED
        BY <2>3, <2>7, <2>8
<1>6. CASE Billing!WriteLines(r)
    <2>1. NumbersAreDrawn'
        BY <1>0, <1>c, <1>6 DEF Billing!WriteLines, Billing!TypeOK, HandFits, NumbersAreDrawn
    <2>2. NoneIsLost'
        BY <1>0, <1>6 DEF Billing!WriteLines, Billing!TypeOK, HandFits, NoneIsLost, OnInvoice, OnItsWay, Spoilt
    <2>3. QED
        BY <2>1, <2>2
<1>7. CASE Billing!StoreDocument(r)
    <2>1. NumbersAreDrawn'
        BY <1>0, <1>c, <1>7 DEF Billing!StoreDocument, Billing!TypeOK, HandFits, NumbersAreDrawn
    <2>2. NoneIsLost'
        BY <1>0, <1>7 DEF Billing!StoreDocument, Billing!TypeOK, HandFits, NoneIsLost, OnInvoice, OnItsWay, Spoilt
    <2>3. QED
        BY <2>1, <2>2
<1>8. CASE Billing!Fail(r)
    <2>1. NumbersAreDrawn'
        BY <1>0, <1>c, <1>8 DEF Billing!Fail, Billing!TypeOK, HandFits, NumbersAreDrawn
    <2>2. NoneIsLost'
        BY <1>0, <1>8 DEF Billing!Fail, Billing!TypeOK, HandFits, NoneIsLost, OnInvoice, OnItsWay, Spoilt
    <2>3. QED
        BY <2>1, <2>2
<1>9. CASE Billing!Stop(r)
    <2>1. NumbersAreDrawn'
        BY <1>0, <1>c, <1>9 DEF Billing!Stop, Billing!TypeOK, HandFits, NumbersAreDrawn
    <2>2. NoneIsLost'
        BY <1>0, <1>9 DEF Billing!Stop, Billing!TypeOK, HandFits, NoneIsLost, OnInvoice, OnItsWay, Spoilt
    <2>3. QED
        BY <2>1, <2>2
<1>10. QED
    BY <1>1, <1>2, <1>3, <1>4, <1>5, <1>6, <1>7, <1>8, <1>9 DEF Billing!RunStep

LEMMA ImportKeepsNumbers ==
    ASSUME NumberInv, NEW a \in Legacy, Billing!Import(a)
    PROVE  NumbersAreDrawn' /\ NoneIsLost'
<1> USE DEF NumberInv, RunInv, Billing!TypeOK, Billing!Import, Billing!runVars, Billing!invoiceHistory
<1>1. NumbersAreDrawn'
    BY DEF NumbersAreDrawn
<1>2. created \subseteq created'
    OBVIOUS
<1>3. NoneIsLost'
    BY <1>2 DEF NoneIsLost, OnInvoice, OnItsWay, Spoilt
<1>4. QED
    BY <1>1, <1>3

LEMMA NumberNext == NumberInv /\ [Next]_sceneVars => NumberInv'
<1> SUFFICES ASSUME NumberInv, [Next]_sceneVars
             PROVE  NumbersAreDrawn' /\ NoneIsLost'
    BY RunNext DEF NumberInv
<1>1. CASE Billing!Next
    BY <1>1, RunKeepsNumbers, ImportKeepsNumbers DEF Billing!Next
<1>2. CASE UNCHANGED billingVars
    BY <1>2 DEF billingVars, NumberInv, NumbersAreDrawn, NoneIsLost, OnInvoice, OnItsWay, Spoilt
<1>3. QED
    BY <1>1, <1>2 DEF Next, sceneVars

LEMMA NumberInit == Billing!Init => NumberInv
<1> SUFFICES ASSUME Billing!Init
             PROVE  NumbersAreDrawn /\ NoneIsLost
    BY RunInit DEF NumberInv
<1>1. NumbersAreDrawn
    BY OrganisationOfAssumption DEF Billing!Init, NumbersAreDrawn
<1>2. NoneIsLost
    BY DEF Billing!Init, NoneIsLost
<1>3. QED
    BY <1>1, <1>2

LEMMA InvGivesNoGaps == NumberInv => NumbersHaveNoGaps
<1> SUFFICES ASSUME NumberInv, NEW o \in Organisations
             PROVE  /\ Billing!Numbers(o) \cup Billing!NumbersInHand(o) \subseteq 1..drawn[o]
                    /\ (\A a \in Spoilt : OrganisationOf[a] # o) =>
                           1..drawn[o] \subseteq Billing!Numbers(o) \cup Billing!NumbersInHand(o)
    BY DEF NumbersHaveNoGaps, Billing!NumbersHaveNoGaps, Spoilt
<1>0. Billing!TypeOK /\ NumbersAreDrawn /\ NoneIsLost
    BY DEF NumberInv, RunInv
<1>1. Billing!Numbers(o) \subseteq 1..drawn[o]
    BY <1>0 DEF Billing!TypeOK, NumbersAreDrawn, Billing!Numbers
<1>2. Billing!NumbersInHand(o) \subseteq 1..drawn[o]
    BY <1>0 DEF NumbersAreDrawn, Billing!NumbersInHand
<1>3. ASSUME NEW n, OnInvoice(o, n)
      PROVE  n \in Billing!Numbers(o)
    BY <1>3 DEF OnInvoice, Billing!Numbers
<1>4. ASSUME NEW n, OnItsWay(o, n)
      PROVE  n \in Billing!NumbersInHand(o)
    BY <1>4 DEF OnItsWay, Billing!NumbersInHand
<1>5. QED
    BY <1>0, <1>1, <1>2, <1>3, <1>4 DEF NoneIsLost

(***************************************************************************)
(* The invoice numbers of an organisation have no gaps, unless runs met    *)
(* over one of its agreements, failed, stopped or were refused a number;   *)
(* for any number of organisations and runs.                               *)
(***************************************************************************)
THEOREM NumbersHaveNoGapsHolds == Spec => []NumbersHaveNoGaps
<1>1. Init => NumberInv
    BY NumberInit DEF Init
<1>2. QED
    BY <1>1, NumberNext, InvGivesNoGaps, PTL DEF Spec
=============================================================================
