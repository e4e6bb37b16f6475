---------------------------- MODULE Rentals_proofs ----------------------------
(***************************************************************************)
(* Proofs about the rental life cycle and the door credentials, for any    *)
(* number of agreements, signatories, calls, lockers and processes.        *)
(***************************************************************************)
EXTENDS RentalLifecycle, TLAPS

rentalVars == <<paperVars, partyVars, occupied, signVars, jobVars, callVars, handlerVars, rentalHistory>>

(* What an activation and its handler know goes with their positions. *)
CallFits ==
    \A c \in Calls :
        /\ cpc[c] = "idle" <=> con[c] = NoAgreement
        /\ cpc[c] = "idle" => cjob[c] = NoJob
        /\ hpc[c] = "idle" <=> hon[c] = NoAgreement
        /\ cpc[c] \in {"ready", "begin", "signatures", "mandate", "activate", "emit"} => hpc[c] = "idle"
        /\ kind[c] = "issue" => cpc[c] \in {"idle", "ask", "create"}

(* A sign call or pay call that is not over has no job yet; a queued job has attempts left. *)
JobFits ==
    /\ \A t \in SignCalls : spc[t] # "done" => job[t] = "none"
    /\ \A t \in PayCalls : ppc[t] # "done" => job[t] = "none"
    /\ \A t \in Jobs : job[t] = "none" => tries[t] = 0
    /\ \A t \in Jobs : job[t] = "queued" => tries[t] < MaxAttempts
    /\ \A c \in Calls : cjob[c] # NoJob => job[cjob[c]] # "none"

(* A locker has a row in hand from the vendor to the write, and that row exists. *)
LockerFits ==
    \A l \in Lockers :
        /\ lpc[l] \in {"vendor", "write"} <=> lon[l] # NoAgreement
        /\ lon[l] # NoAgreement => row[lon[l]] # "none"

FitInv == TypeOK /\ CallFits /\ JobFits /\ LockerFits

LEMMA EntryFits ==
    \A k \in DOMAIN Entry :
        /\ k \in {"desk", "waived", "bare", "issue"}
        /\ Entry[k] \in {"begin", "signatures", "ask"}
        /\ Entry[k] = "ask" <=> k = "issue"
BY DEF Entry

LEMMA InitFits == Init => FitInv
<1> SUFFICES ASSUME Init
             PROVE  FitInv
    OBVIOUS
<1> USE DEF Init, AccessInit
<1>1. AccessTypeOK
    <2>1. events \in 0..MaxEvents
        BY MaxEventsAssumption
    <2>2. QED
        BY <2>1 DEF AccessTypeOK
<1>2. tries \in [Jobs -> 0..MaxAttempts]
    BY MaxAttemptsAssumption
<1>3. TypeOK
    <2>1. PICK origin \in [Agreements -> DOMAIN Origins], who \in [Agreements -> Persons] :
              /\ status = [a \in Agreements |-> Origins[origin[a]]]
              /\ signatories = [a \in Agreements |-> FirstRows(origin[a], who[a])]
              /\ imported = {a \in Agreements : origin[a] = "import"}
              /\ openInvoice \in SUBSET {a \in Agreements : origin[a] = "checkout"}
        OBVIOUS
    <2>2. status \in [Agreements -> {"draft", "pending_signature", "signed", "active"}]
        BY <2>1 DEF Origins
    <2>3. \A a \in Agreements : FirstRows(origin[a], who[a]) \in SUBSET (Persons \X {"pending", "signed"})
        BY <2>1 DEF FirstRows
    <2>4. signatories \in [Agreements -> SUBSET (Persons \X {"pending", "signed"})]
        BY <2>1, <2>3
    <2>5. imported \in SUBSET Agreements /\ openInvoice \in SUBSET Agreements
        BY <2>1
    <2>6. QED
        BY <1>1, <1>2, <2>2, <2>4, <2>5 DEF TypeOK
<1>4. CallFits /\ LockerFits
    BY DEF CallFits, LockerFits
<1>5. JobFits
    BY MaxAttemptsAssumption DEF JobFits, Jobs
<1>6. QED
    BY <1>3, <1>4, <1>5 DEF FitInv

(***************************************************************************)
(* What of an agreement is complete or active from the start has been      *)
(* imported.                                                               *)
(***************************************************************************)
LEMMA InitImports ==
    ASSUME Init, NEW a \in Agreements
    PROVE  /\ status[a] = "active" => a \in imported
           /\ Complete(signatories[a]) => a \in imported
<1>1. PICK origin \in [Agreements -> DOMAIN Origins], who \in [Agreements -> Persons] :
          /\ status = [b \in Agreements |-> Origins[origin[b]]]
          /\ signatories = [b \in Agreements |-> FirstRows(origin[b], who[b])]
          /\ imported = {b \in Agreements : origin[b] = "import"}
    BY DEF Init
<1>2. origin[a] \in {"desk", "checkout", "import"}
    BY DEF Origins
<1>3. CASE origin[a] = "desk"
    BY <1>1, <1>3 DEF Origins, FirstRows, Complete
<1>4. CASE origin[a] = "checkout"
    <2>1. <<who[a], "pending">> \in signatories[a]
        BY <1>1, <1>4 DEF FirstRows
    <2>2. QED
        BY <1>1, <1>4, <2>1 DEF Origins, Complete
<1>5. CASE origin[a] = "import"
    BY <1>1, <1>5
<1>6. QED
    BY <1>2, <1>3, <1>4, <1>5

(* Every step keeps to the types. *)
LEMMA NextType == FitInv /\ Next => AccessTypeOK' /\ TypeOK'
<1> SUFFICES ASSUME FitInv, Next
             PROVE  AccessTypeOK' /\ TypeOK'
    OBVIOUS
<1> USE MaxEventsAssumption, MaxAttemptsAssumption, AboutAssumption, NoAgreementAssumption, TenantOfAssumption, SignerOfAssumption, EntryFits
    DEF Happens, keyVars, lockerVars, lockHistory, doorVars, accessVars, paperVars, partyVars, signVars, jobVars,
        callVars, handlerVars, rentalHistory, Jobs
<1>0. TypeOK /\ CallFits /\ JobFits /\ LockerFits
    BY DEF FitInv
<1>1. ASSUME NEW a \in Agreements, SendStatus(a)
      PROVE  AccessTypeOK' /\ TypeOK'
    <2>1. AccessTypeOK'
        BY <1>0, <1>1 DEF SendStatus, TypeOK, AccessTypeOK, CallFits, LockerFits
    <2>2. TypeOK'
        BY <2>1, <1>0, <1>1 DEF SendStatus, TypeOK, CallFits, JobFits
    <2>3. QED
        BY <2>1, <2>2
<1>2. ASSUME NEW a \in Agreements, SendRows(a)
      PROVE  AccessTypeOK' /\ TypeOK'
    <2>1. AccessTypeOK'
        BY <1>0, <1>2 DEF SendRows, SetRows, TypeOK, AccessTypeOK, CallFits, LockerFits
    <2>2. TypeOK'
        BY <2>1, <1>0, <1>2 DEF SendRows, SetRows, TypeOK, CallFits, JobFits
    <2>3. QED
        BY <2>1, <2>2
<1>3. ASSUME NEW a \in Agreements, DeskRelease(a)
      PROVE  AccessTypeOK' /\ TypeOK'
    <2>1. AccessTypeOK'
        BY <1>0, <1>3 DEF DeskRelease, Release, TypeOK, AccessTypeOK, CallFits, LockerFits
    <2>2. TypeOK'
        BY <2>1, <1>0, <1>3 DEF DeskRelease, Release, TypeOK, CallFits, JobFits
    <2>3. QED
        BY <2>1, <2>2
<1>4. ASSUME NEW t \in SignCalls, SignFind(t)
      PROVE  AccessTypeOK' /\ TypeOK'
    <2>1. AccessTypeOK'
        BY <1>0, <1>4 DEF SignFind, TypeOK, AccessTypeOK, CallFits, LockerFits
    <2>2. TypeOK'
        BY <2>1, <1>0, <1>4 DEF SignFind, TypeOK, CallFits, JobFits
    <2>3. QED
        BY <2>1, <2>2
<1>5. ASSUME NEW t \in SignCalls, SignRow(t)
      PROVE  AccessTypeOK' /\ TypeOK'
    <2>1. AccessTypeOK'
        BY <1>0, <1>5 DEF SignRow, SetRows, TypeOK, AccessTypeOK, CallFits, LockerFits
    <2>2. TypeOK'
        BY <2>1, <1>0, <1>5 DEF SignRow, SetRows, TypeOK, CallFits, JobFits
    <2>3. QED
        BY <2>1, <2>2
<1>6. ASSUME NEW t \in SignCalls, SignCheck(t)
      PROVE  AccessTypeOK' /\ TypeOK'
    <2>1. AccessTypeOK'
        BY <1>0, <1>6 DEF SignCheck, TypeOK, AccessTypeOK, CallFits, LockerFits
    <2>2. TypeOK'
        BY <2>1, <1>0, <1>6 DEF SignCheck, TypeOK, CallFits, JobFits
    <2>3. QED
        BY <2>1, <2>2
<1>7. ASSUME NEW t \in SignCalls, SignWrite(t)
      PROVE  AccessTypeOK' /\ TypeOK'
    <2>1. AccessTypeOK'
        BY <1>0, <1>7 DEF SignWrite, TypeOK, AccessTypeOK, CallFits, LockerFits
    <2>2. TypeOK'
        BY <2>1, <1>0, <1>7 DEF SignWrite, TypeOK, CallFits, JobFits
    <2>3. QED
        BY <2>1, <2>2
<1>8. ASSUME NEW t \in SignCalls, SignQueue(t)
      PROVE  AccessTypeOK' /\ TypeOK'
    <2>1. AccessTypeOK'
        BY <1>0, <1>8 DEF SignQueue, TypeOK, AccessTypeOK, CallFits, LockerFits
    <2>2. TypeOK'
        BY <2>1, <1>0, <1>8 DEF SignQueue, TypeOK, CallFits, JobFits
    <2>3. QED
        BY <2>1, <2>2
<1>9. ASSUME NEW t \in SignCalls, SignStops(t)
      PROVE  AccessTypeOK' /\ TypeOK'
    <2>1. AccessTypeOK'
        BY <1>0, <1>9 DEF SignStops, TypeOK, AccessTypeOK, CallFits, LockerFits
    <2>2. TypeOK'
        BY <2>1, <1>0, <1>9 DEF SignStops, TypeOK, CallFits, JobFits
    <2>3. QED
        BY <2>1, <2>2
<1>10. ASSUME NEW t \in PayCalls, Pay(t)
      PROVE  AccessTypeOK' /\ TypeOK'
    <2>1. AccessTypeOK'
        BY <1>0, <1>10 DEF Pay, TypeOK, AccessTypeOK, CallFits, LockerFits
    <2>2. TypeOK'
        BY <2>1, <1>0, <1>10 DEF Pay, TypeOK, CallFits, JobFits
    <2>3. QED
        BY <2>1, <2>2
<1>11. ASSUME NEW t \in PayCalls, PayQueue(t)
      PROVE  AccessTypeOK' /\ TypeOK'
    <2>1. AccessTypeOK'
        BY <1>0, <1>11 DEF PayQueue, TypeOK, AccessTypeOK, CallFits, LockerFits
    <2>2. TypeOK'
        BY <2>1, <1>0, <1>11 DEF PayQueue, TypeOK, CallFits, JobFits
    <2>3. QED
        BY <2>1, <2>2
<1>12. ASSUME NEW u \in Tenants, Grant(u)
      PROVE  AccessTypeOK' /\ TypeOK'
    <2>1. AccessTypeOK'
        BY <1>0, <1>12 DEF Grant, TypeOK, AccessTypeOK, CallFits, LockerFits
    <2>2. TypeOK'
        BY <2>1, <1>0, <1>12 DEF Grant, TypeOK, CallFits, JobFits
    <2>3. QED
        BY <2>1, <2>2
<1>13. ASSUME NEW u \in Tenants, Revoke(u)
      PROVE  AccessTypeOK' /\ TypeOK'
    <2>1. AccessTypeOK'
        BY <1>0, <1>13 DEF Revoke, TypeOK, AccessTypeOK, CallFits, LockerFits
    <2>2. TypeOK'
        BY <2>1, <1>0, <1>13 DEF Revoke, TypeOK, CallFits, JobFits
    <2>3. QED
        BY <2>1, <2>2
<1>14. ASSUME NEW c \in Calls, NEW t \in Jobs, TakeJob(c, t)
      PROVE  AccessTypeOK' /\ TypeOK'
    <2>1. AccessTypeOK'
        BY <1>0, <1>14 DEF TakeJob, TypeOK, AccessTypeOK, CallFits, LockerFits
    <2>2. TypeOK'
        BY <2>1, <1>0, <1>14 DEF TakeJob, TypeOK, CallFits, JobFits
    <2>3. QED
        BY <2>1, <2>2
<1>15. ASSUME NEW c \in Calls, NEW k \in DOMAIN Entry, NEW a \in Agreements, DeskCall(c, k, a)
      PROVE  AccessTypeOK' /\ TypeOK'
    <2>1. AccessTypeOK'
        BY <1>0, <1>15 DEF DeskCall, TypeOK, AccessTypeOK, CallFits, LockerFits
    <2>2. TypeOK'
        BY <2>1, <1>0, <1>15 DEF DeskCall, TypeOK, CallFits, JobFits
    <2>3. QED
        BY <2>1, <2>2
<1>16. ASSUME NEW c \in Calls, Readiness(c)
      PROVE  AccessTypeOK' /\ TypeOK'
    <2>1. AccessTypeOK'
        BY <1>0, <1>16
        DEF Readiness, CanActivate, Goto, Return, Leave, TypeOK, AccessTypeOK, CallFits, LockerFits
    <2>2. TypeOK'
        BY <2>1, <1>0, <1>16 DEF Readiness, CanActivate, Goto, Return, Leave, TypeOK, CallFits, JobFits
    <2>3. QED
        BY <2>1, <2>2
<1>17. ASSUME NEW c \in Calls, Begin(c)
      PROVE  AccessTypeOK' /\ TypeOK'
    <2>1. AccessTypeOK'
        BY <1>0, <1>17 DEF Begin, Goto, Throw, Leave, TypeOK, AccessTypeOK, CallFits, LockerFits
    <2>2. TypeOK'
        BY <2>1, <1>0, <1>17 DEF Begin, Goto, Throw, Leave, TypeOK, CallFits, JobFits
    <2>3. QED
        BY <2>1, <2>2
<1>18. ASSUME NEW c \in Calls, CheckSignatures(c)
      PROVE  AccessTypeOK' /\ TypeOK'
    <2>1. AccessTypeOK'
        BY <1>0, <1>18 DEF CheckSignatures, Goto, Throw, Leave, TypeOK, AccessTypeOK, CallFits, LockerFits
    <2>2. TypeOK'
        <3>1. CASE Complete(signatories[con[c]])
            BY <2>1, <1>0, <1>18, <3>1 DEF CheckSignatures, Goto, TypeOK
        <3>2. CASE ~Complete(signatories[con[c]])
            BY <2>1, <1>0, <1>18, <3>2 DEF CheckSignatures, Throw, Leave, TypeOK, CallFits
        <3>3. QED
            BY <3>1, <3>2
    <2>3. QED
        BY <2>1, <2>2
<1>19. ASSUME NEW c \in Calls, CheckMandate(c)
      PROVE  AccessTypeOK' /\ TypeOK'
    <2>1. AccessTypeOK'
        BY <1>0, <1>19 DEF CheckMandate, Goto, Throw, Leave, TypeOK, AccessTypeOK, CallFits, LockerFits
    <2>2. TypeOK'
        BY <2>1, <1>0, <1>19 DEF CheckMandate, Goto, Throw, Leave, TypeOK, CallFits, JobFits
    <2>3. QED
        BY <2>1, <2>2
<1>20. ASSUME NEW c \in Calls, Activate(c)
      PROVE  AccessTypeOK' /\ TypeOK'
    <2>1. AccessTypeOK'
        BY <1>0, <1>20 DEF Activate, Goto, TypeOK, AccessTypeOK, CallFits, LockerFits
    <2>2. TypeOK'
        BY <2>1, <1>0, <1>20 DEF Activate, Goto, TypeOK, CallFits, JobFits
    <2>3. QED
        BY <2>1, <2>2
<1>21. ASSUME NEW c \in Calls, CallThrows(c)
      PROVE  AccessTypeOK' /\ TypeOK'
    <2>1. AccessTypeOK'
        BY <1>0, <1>21 DEF CallThrows, Throw, Leave, TypeOK, AccessTypeOK, CallFits, LockerFits
    <2>2. TypeOK'
        BY <2>1, <1>0, <1>21 DEF CallThrows, Throw, Leave, TypeOK, CallFits, JobFits
    <2>3. QED
        BY <2>1, <2>2
<1>22. ASSUME NEW c \in Calls, Emit(c)
      PROVE  AccessTypeOK' /\ TypeOK'
    <2>1. AccessTypeOK'
        BY <1>0, <1>22 DEF Emit, Goto, Return, Leave, TypeOK, AccessTypeOK, CallFits, LockerFits
    <2>2. TypeOK'
        <3>1. CASE kind[c] = "bare"
            BY <2>1, <1>0, <1>22, <3>1 DEF Emit, Goto, Return, Leave, TypeOK, CallFits, JobFits
        <3>2. CASE ~(kind[c] = "bare")
            BY <2>1, <1>0, <1>22, <3>2 DEF Emit, Goto, Return, Leave, TypeOK, CallFits, JobFits
        <3>3. QED
            BY <3>1, <3>2
    <2>3. QED
        BY <2>1, <2>2
<1>23. ASSUME NEW c \in Calls, LookUp(c)
      PROVE  AccessTypeOK' /\ TypeOK'
    <2>1. AccessTypeOK'
        BY <1>0, <1>23 DEF LookUp, Goto, TypeOK, AccessTypeOK, CallFits, LockerFits
    <2>2. TypeOK'
        BY <2>1, <1>0, <1>23 DEF LookUp, Goto, TypeOK, CallFits, JobFits
    <2>3. QED
        BY <2>1, <2>2
<1>24. ASSUME NEW c \in Calls, CallAsks(c)
      PROVE  AccessTypeOK' /\ TypeOK'
    <2>1. AccessTypeOK'
        BY <1>0, <1>24 DEF CallAsks, Goto, TypeOK, AccessTypeOK, CallFits, LockerFits
    <2>2. TypeOK'
        BY <2>1, <1>0, <1>24 DEF CallAsks, Goto, TypeOK, CallFits, JobFits
    <2>3. QED
        BY <2>1, <2>2
<1>25. ASSUME NEW c \in Calls, CallCreates(c)
      PROVE  AccessTypeOK' /\ TypeOK'
    <2>1. AccessTypeOK'
        <3>1. /\ CanCreate(con[c]) => CreateRow(con[c])
              /\ ~CanCreate(con[c]) => UNCHANGED <<row, lock>>
              /\ UNCHANGED <<released, lockerVars, lockHistory, events>>
            BY <1>25 DEF CallCreates
        <3>2. /\ row \in [Agreements -> {"none", "active", "suspended"}]
              /\ lock \in [Agreements -> {"none", "open", "shut"}]
            BY <1>0 DEF TypeOK, AccessTypeOK
        <3>3. row' \in [Agreements -> {"none", "active", "suspended"}]
            BY <3>1, <3>2 DEF CreateRow
        <3>4. lock' \in [Agreements -> {"none", "open", "shut"}]
            BY <3>1, <3>2 DEF CreateRow
        <3>5. QED
            BY <1>0, <3>1, <3>3, <3>4 DEF TypeOK, AccessTypeOK
    <2>2. TypeOK'
        <3>1. CASE CanCreate(con[c]) /\ kind[c] = "issue"
            BY <2>1, <1>0, <1>25, <3>1
            DEF CallCreates, CreateRow, Goto, Return, Throw, Leave, TypeOK, CallFits, JobFits
        <3>2. CASE CanCreate(con[c]) /\ kind[c] # "issue"
            BY <2>1, <1>0, <1>25, <3>2
            DEF CallCreates, CreateRow, Goto, Return, Throw, Leave, TypeOK, CallFits, JobFits
        <3>3. CASE ~CanCreate(con[c])
            BY <2>1, <1>0, <1>25, <3>3
            DEF CallCreates, CreateRow, Goto, Return, Throw, Leave, TypeOK, CallFits, JobFits
        <3>4. QED
            BY <3>1, <3>2, <3>3
    <2>3. QED
        BY <2>1, <2>2
<1>26. ASSUME NEW c \in Calls, CallReleases(c)
      PROVE  AccessTypeOK' /\ TypeOK'
    <2>1. AccessTypeOK'
        BY <1>0, <1>26 DEF CallReleases, Release, Goto, TypeOK, AccessTypeOK, CallFits, LockerFits
    <2>2. TypeOK'
        BY <2>1, <1>0, <1>26 DEF CallReleases, Release, Goto, TypeOK, CallFits, JobFits
    <2>3. QED
        BY <2>1, <2>2
<1>27. ASSUME NEW c \in Calls, Occupy(c)
      PROVE  AccessTypeOK' /\ TypeOK'
    <2>1. AccessTypeOK'
        BY <1>0, <1>27 DEF Occupy, Return, Leave, TypeOK, AccessTypeOK, CallFits, LockerFits
    <2>2. TypeOK'
        BY <2>1, <1>0, <1>27 DEF Occupy, Return, Leave, TypeOK, CallFits, JobFits
    <2>3. QED
        BY <2>1, <2>2
<1>28. ASSUME NEW c \in Calls, HandlerAsks(c)
      PROVE  AccessTypeOK' /\ TypeOK'
    <2>1. AccessTypeOK'
        BY <1>0, <1>28 DEF HandlerAsks, TypeOK, AccessTypeOK, CallFits, LockerFits
    <2>2. TypeOK'
        BY <2>1, <1>0, <1>28 DEF HandlerAsks, TypeOK, CallFits, JobFits
    <2>3. QED
        BY <2>1, <2>2
<1>29. ASSUME NEW c \in Calls, HandlerCreates(c)
      PROVE  AccessTypeOK' /\ TypeOK'
    <2>1. AccessTypeOK'
        BY <1>0, <1>29 DEF HandlerCreates, CanCreate, CreateRow, TypeOK, AccessTypeOK, CallFits, LockerFits
    <2>2. TypeOK'
        BY <2>1, <1>0, <1>29 DEF HandlerCreates, CanCreate, CreateRow, TypeOK, CallFits, JobFits
    <2>3. QED
        BY <2>1, <2>2
<1>30. ASSUME NEW c \in Calls, HandlerRejects(c)
      PROVE  AccessTypeOK' /\ TypeOK'
    <2>1. AccessTypeOK'
        BY <1>0, <1>30
        DEF HandlerRejects, CanCreate, ProcessDies, LockersStop, TypeOK, AccessTypeOK, CallFits, LockerFits
    <2>2. TypeOK'
        BY <2>1, <1>0, <1>30 DEF HandlerRejects, CanCreate, ProcessDies, LockersStop, TypeOK, CallFits, JobFits
    <2>3. QED
        BY <2>1, <2>2
<1>31. ASSUME NEW l \in Lockers, NEW m \in {"suspend", "restore"}, NEW a \in Agreements, DeskLock(l, m, a), UNCHANGED rentalVars
      PROVE  AccessTypeOK' /\ TypeOK'
    <2>1. AccessTypeOK'
        BY <1>0, <1>31 DEF DeskLock, StartLocker, rentalVars, TypeOK, AccessTypeOK, CallFits, LockerFits
    <2>2. TypeOK'
        BY <2>1, <1>0, <1>31 DEF DeskLock, StartLocker, rentalVars, TypeOK, CallFits, JobFits
    <2>3. QED
        BY <2>1, <2>2
<1>32. ASSUME NEW l \in Lockers, NEW m \in {"suspend", "restore"}, NEW u \in Tenants, InvoiceEvent(l, m, u, Active), UNCHANGED rentalVars
      PROVE  AccessTypeOK' /\ TypeOK'
    <2>1. AccessTypeOK'
        BY <1>0, <1>32
        DEF InvoiceEvent, StartLocker, Reach, Active, rentalVars, TypeOK, AccessTypeOK, CallFits, LockerFits
    <2>2. TypeOK'
        BY <2>1, <1>0, <1>32 DEF InvoiceEvent, StartLocker, Reach, Active, rentalVars, TypeOK, CallFits, JobFits
    <2>3. QED
        BY <2>1, <2>2
<1>33. ASSUME NEW l \in Lockers, SkipRow(l), UNCHANGED rentalVars
      PROVE  AccessTypeOK' /\ TypeOK'
    <2>1. AccessTypeOK'
        BY <1>0, <1>33 DEF SkipRow, AfterRound, rentalVars, TypeOK, AccessTypeOK, CallFits, LockerFits
    <2>2. TypeOK'
        BY <2>1, <1>0, <1>33 DEF SkipRow, AfterRound, rentalVars, TypeOK, CallFits, JobFits
    <2>3. QED
        BY <2>1, <2>2
<1>34. ASSUME NEW l \in Lockers, ReadRow(l), UNCHANGED rentalVars
      PROVE  AccessTypeOK' /\ TypeOK'
    <2>1. AccessTypeOK'
        BY <1>0, <1>34 DEF ReadRow, HasWork, Opposed, rentalVars, TypeOK, AccessTypeOK, CallFits, LockerFits
    <2>2. TypeOK'
        BY <2>1, <1>0, <1>34 DEF ReadRow, HasWork, Opposed, rentalVars, TypeOK, CallFits, JobFits
    <2>3. QED
        BY <2>1, <2>2
<1>35. ASSUME NEW l \in Lockers, TellVendor(l), UNCHANGED rentalVars
      PROVE  AccessTypeOK' /\ TypeOK'
    <2>1. AccessTypeOK'
        BY <1>0, <1>35 DEF TellVendor, rentalVars, TypeOK, AccessTypeOK, CallFits, LockerFits
    <2>2. TypeOK'
        BY <2>1, <1>0, <1>35 DEF TellVendor, rentalVars, TypeOK, CallFits, JobFits
    <2>3. QED
        BY <2>1, <2>2
<1>36. ASSUME NEW l \in Lockers, WriteRow(l), UNCHANGED rentalVars
      PROVE  AccessTypeOK' /\ TypeOK'
    <2>1. AccessTypeOK'
        BY <1>0, <1>36 DEF WriteRow, AfterRound, rentalVars, TypeOK, AccessTypeOK, CallFits, LockerFits
    <2>2. TypeOK'
        BY <2>1, <1>0, <1>36 DEF WriteRow, AfterRound, rentalVars, TypeOK, CallFits, JobFits
    <2>3. QED
        BY <2>1, <2>2
<1>37. ASSUME NEW t \in PayCalls, PayStops(t)
      PROVE  AccessTypeOK' /\ TypeOK'
    <2>1. AccessTypeOK'
        BY <1>0, <1>37 DEF PayStops, TypeOK, AccessTypeOK, CallFits, LockerFits
    <2>2. TypeOK'
        BY <2>1, <1>0, <1>37 DEF PayStops, TypeOK, CallFits, JobFits
    <2>3. QED
        BY <2>1, <2>2
<1>38. ASSUME NEW a \in Agreements, Bill(a)
      PROVE  AccessTypeOK' /\ TypeOK'
    <2>1. AccessTypeOK'
        BY <1>0, <1>38 DEF Bill, TypeOK, AccessTypeOK, CallFits, LockerFits
    <2>2. TypeOK'
        BY <2>1, <1>0, <1>38 DEF Bill, TypeOK, CallFits, JobFits
    <2>3. QED
        BY <2>1, <2>2
<1>39. ASSUME NEW a \in Agreements, CloseQuietly(a)
      PROVE  AccessTypeOK' /\ TypeOK'
    <2>1. AccessTypeOK'
        BY <1>0, <1>39 DEF CloseQuietly, TypeOK, AccessTypeOK, CallFits, LockerFits
    <2>2. TypeOK'
        BY <2>1, <1>0, <1>39 DEF CloseQuietly, TypeOK, CallFits, JobFits
    <2>3. QED
        BY <2>1, <2>2
<1>40. ASSUME NEW l \in Lockers, LockerThrows(l)
      PROVE  AccessTypeOK' /\ TypeOK'
    <2>1. AccessTypeOK'
        <3>1. PICK dead \in SUBSET Lockers : LockersStop(dead) /\ UNCHANGED keyVars
            <4>1. CASE l \in heard
                BY <1>40, <4>1 DEF LockerThrows, ProcessDies
            <4>2. CASE l \notin heard
                BY <1>40, <4>2 DEF LockerThrows
            <4>3. QED
                BY <4>1, <4>2
        <3>2. events' \in 0..MaxEvents
            BY <1>0, <1>40 DEF LockerThrows, TypeOK, AccessTypeOK
        <3>3. torn' \in SUBSET Agreements
            BY <1>0, <3>1 DEF LockersStop, TypeOK, AccessTypeOK, LockerFits
        <3>4. /\ lpc' \in [Lockers -> {"idle", "read", "vendor", "write"}]
              /\ todo' \in [Lockers -> SUBSET Agreements]
              /\ lon' \in [Lockers -> Agreements \cup {NoAgreement}]
            BY <1>0, <3>1 DEF LockersStop, TypeOK, AccessTypeOK
        <3>5. UNCHANGED <<keyVars, mode, heard, debtors, deskLocked, clashed>>
            BY <3>1 DEF LockersStop
        <3>6. QED
            BY <1>0, <3>2, <3>3, <3>4, <3>5 DEF TypeOK, AccessTypeOK
    <2>2. TypeOK'
        <3>1. CASE l \in heard
            <4>1. ProcessDies(ProcessOf[l])
                BY <1>40, <3>1 DEF LockerThrows
            <4>2. cut' \in SUBSET Agreements /\ spoiled' \in SUBSET Agreements
                BY <1>0, <4>1 DEF ProcessDies, TypeOK, CallFits
            <4>3. /\ cpc' \in [Calls -> {"idle", "ready", "begin", "signatures", "mandate", "activate", "emit", "lookup",
                                          "ask", "create", "release", "occupy"}]
                  /\ con' \in [Calls -> Agreements \cup {NoAgreement}]
                  /\ cjob' \in [Calls -> Jobs \cup {NoJob}]
                BY <1>0, <4>1 DEF ProcessDies, TypeOK
            <4>4. /\ hpc' \in [Calls -> {"idle", "ask", "create"}]
                  /\ hon' \in [Calls -> Agreements \cup {NoAgreement}]
                BY <1>0, <4>1 DEF ProcessDies, TypeOK
            <4>5. /\ spc' \in [SignCalls -> {"idle", "row", "check", "write", "queue", "done"}]
                  /\ ppc' \in [PayCalls -> {"idle", "queue", "done"}]
                BY <1>0, <4>1 DEF ProcessDies, TypeOK
            <4>6. UNCHANGED <<paperVars, partyVars, occupied, jobVars, kind, deskTouched>>
                BY <4>1 DEF ProcessDies
            <4>7. QED
                BY <2>1, <1>0, <4>2, <4>3, <4>4, <4>5, <4>6 DEF TypeOK
        <3>2. CASE l \notin heard
            BY <2>1, <1>0, <1>40, <3>2 DEF LockerThrows, TypeOK
        <3>3. QED
            BY <3>1, <3>2
    <2>3. QED
        BY <2>1, <2>2
<1>41. QED
    <2>1. CASE \E a \in Agreements : SendStatus(a) \/ SendRows(a) \/ DeskRelease(a) \/ Bill(a) \/ CloseQuietly(a)
        BY <2>1, <1>1, <1>2, <1>3, <1>38, <1>39
    <2>2. CASE \E t \in SignCalls : SignFind(t) \/ SignStep(t) \/ SignStops(t)
        BY <2>2, <1>4, <1>5, <1>6, <1>7, <1>8, <1>9 DEF SignStep
    <2>3. CASE \E t \in PayCalls : Pay(t) \/ PayQueue(t) \/ PayStops(t)
        BY <2>3, <1>10, <1>11, <1>37
    <2>4. CASE \E tenant \in Tenants : Grant(tenant) \/ Revoke(tenant)
        BY <2>4, <1>12, <1>13
    <2>5. CASE \E c \in Calls, t \in Jobs : TakeJob(c, t)
        BY <2>5, <1>14
    <2>6. CASE \E c \in Calls, k \in DOMAIN Entry, a \in Agreements : DeskCall(c, k, a)
        BY <2>6, <1>15
    <2>7. CASE \E c \in Calls : CallStep(c)
        BY <2>7, <1>16, <1>17, <1>18, <1>19, <1>20, <1>21, <1>22, <1>23, <1>24, <1>25, <1>26, <1>27 DEF CallStep
    <2>8. CASE \E c \in Calls : HandlerStep(c)
        BY <2>8, <1>28, <1>29, <1>30 DEF HandlerStep
    <2>9. CASE \E l \in Lockers : Lock(l)
        BY <2>9, <1>31, <1>32, <1>33, <1>34, <1>35, <1>36, TenantOfAssumption DEF Lock, LockerStep, rentalVars
    <2>10. CASE \E l \in Lockers : LockerThrows(l)
        BY <2>10, <1>40
    <2>11. QED
        BY <2>1, <2>2, <2>3, <2>4, <2>5, <2>6, <2>7, <2>8, <2>9, <2>10 DEF Next

PositionsFit == CallFits /\ JobFits /\ LockerFits

(* A call that throws gives its job back, or up. *)
LEMMA ThrowKeepsJobs ==
    ASSUME FitInv, NEW c \in Calls, Throw(c), UNCHANGED signVars
    PROVE  JobFits'
<1> USE DEF Throw, Leave, signVars
<1>0. TypeOK /\ JobFits
    BY DEF FitInv
<1>1. cjob' = [cjob EXCEPT ![c] = NoJob] /\ tries' = tries
    OBVIOUS
<1>2. CASE cjob[c] = NoJob
    <2>1. job' = job
        BY <1>2
    <2>2. QED
        BY <1>0, <1>1, <2>1 DEF TypeOK, JobFits
<1>3. CASE cjob[c] # NoJob
    <2> DEFINE t == cjob[c]
    <2>1. t \in Jobs /\ job[t] # "none"
        BY <1>0, <1>3 DEF TypeOK, JobFits
    <2>2. job' = [job EXCEPT ![t] = IF tries[t] = MaxAttempts THEN "failed" ELSE "queued"]
        BY <1>3
    <2>3. \A u \in Jobs : job'[u] = (IF u # t THEN job[u] ELSE IF tries[t] = MaxAttempts THEN "failed" ELSE "queued")
        BY <1>0, <2>2 DEF TypeOK
    <2>4. tries[t] # MaxAttempts => tries[t] < MaxAttempts
        BY <1>0, <2>1, MaxAttemptsAssumption DEF TypeOK
    <2> HIDE DEF t
    <2>5. QED
        BY <1>0, <1>1, <2>1, <2>3, <2>4 DEF TypeOK, JobFits, Jobs
<1>4. QED
    BY <1>2, <1>3

(* Every step keeps what goes with the positions. *)
LEMMA NextFits == FitInv /\ Next => PositionsFit'
<1> SUFFICES ASSUME FitInv, Next
             PROVE  PositionsFit'
    OBVIOUS
<1> USE MaxEventsAssumption, MaxAttemptsAssumption, AboutAssumption, JobsAssumption, NoAgreementAssumption, SignerOfAssumption, EntryFits
    DEF Happens, keyVars, lockerVars, lockHistory, doorVars, accessVars, paperVars, partyVars, signVars, jobVars,
        callVars, handlerVars, rentalHistory, Jobs
<1>0. TypeOK /\ CallFits /\ JobFits /\ LockerFits
    BY DEF FitInv
<1>1. ASSUME NEW a \in Agreements, SendStatus(a)
      PROVE  PositionsFit'
    <2>1. CallFits'
        BY <1>0, <1>1 DEF SendStatus, TypeOK, CallFits, JobFits
    <2>2. JobFits'
        BY <1>0, <1>1 DEF SendStatus, TypeOK, JobFits, CallFits
    <2>3. LockerFits'
        BY <1>0, <1>1 DEF SendStatus, TypeOK, AccessTypeOK, LockerFits
    <2>4. QED
        BY <2>1, <2>2, <2>3 DEF PositionsFit
<1>2. ASSUME NEW a \in Agreements, SendRows(a)
      PROVE  PositionsFit'
    <2>1. CallFits'
        BY <1>0, <1>2 DEF SendRows, SetRows, TypeOK, CallFits, JobFits
    <2>2. JobFits'
        BY <1>0, <1>2 DEF SendRows, SetRows, TypeOK, JobFits, CallFits
    <2>3. LockerFits'
        BY <1>0, <1>2 DEF SendRows, SetRows, TypeOK, AccessTypeOK, LockerFits
    <2>4. QED
        BY <2>1, <2>2, <2>3 DEF PositionsFit
<1>3. ASSUME NEW a \in Agreements, DeskRelease(a)
      PROVE  PositionsFit'
    <2>1. CallFits'
        BY <1>0, <1>3 DEF DeskRelease, Release, TypeOK, CallFits, JobFits
    <2>2. JobFits'
        BY <1>0, <1>3 DEF DeskRelease, Release, TypeOK, JobFits, CallFits
    <2>3. LockerFits'
        BY <1>0, <1>3 DEF DeskRelease, Release, TypeOK, AccessTypeOK, LockerFits
    <2>4. QED
        BY <2>1, <2>2, <2>3 DEF PositionsFit
<1>4. ASSUME NEW t \in SignCalls, SignFind(t)
      PROVE  PositionsFit'
    <2>1. CallFits'
        BY <1>0, <1>4 DEF SignFind, TypeOK, CallFits, JobFits
    <2>2. JobFits'
        BY <1>0, <1>4 DEF SignFind, TypeOK, JobFits, CallFits
    <2>3. LockerFits'
        BY <1>0, <1>4 DEF SignFind, TypeOK, AccessTypeOK, LockerFits
    <2>4. QED
        BY <2>1, <2>2, <2>3 DEF PositionsFit
<1>5. ASSUME NEW t \in SignCalls, SignRow(t)
      PROVE  PositionsFit'
    <2>1. CallFits'
        BY <1>0, <1>5 DEF SignRow, SetRows, TypeOK, CallFits, JobFits
    <2>2. JobFits'
        BY <1>0, <1>5 DEF SignRow, SetRows, TypeOK, JobFits, CallFits
    <2>3. LockerFits'
        BY <1>0, <1>5 DEF SignRow, SetRows, TypeOK, AccessTypeOK, LockerFits
    <2>4. QED
        BY <2>1, <2>2, <2>3 DEF PositionsFit
<1>6. ASSUME NEW t \in SignCalls, SignCheck(t)
      PROVE  PositionsFit'
    <2>1. CallFits'
        BY <1>0, <1>6 DEF SignCheck, TypeOK, CallFits, JobFits
    <2>2. JobFits'
        BY <1>0, <1>6 DEF SignCheck, TypeOK, JobFits, CallFits
    <2>3. LockerFits'
        BY <1>0, <1>6 DEF SignCheck, TypeOK, AccessTypeOK, LockerFits
    <2>4. QED
        BY <2>1, <2>2, <2>3 DEF PositionsFit
<1>7. ASSUME NEW t \in SignCalls, SignWrite(t)
      PROVE  PositionsFit'
    <2>1. CallFits'
        BY <1>0, <1>7 DEF SignWrite, TypeOK, CallFits, JobFits
    <2>2. JobFits'
        BY <1>0, <1>7 DEF SignWrite, TypeOK, JobFits, CallFits
    <2>3. LockerFits'
        BY <1>0, <1>7 DEF SignWrite, TypeOK, AccessTypeOK, LockerFits
    <2>4. QED
        BY <2>1, <2>2, <2>3 DEF PositionsFit
<1>8. ASSUME NEW t \in SignCalls, SignQueue(t)
      PROVE  PositionsFit'
    <2>1. CallFits'
        BY <1>0, <1>8 DEF SignQueue, TypeOK, CallFits, JobFits
    <2>2. JobFits'
        BY <1>0, <1>8 DEF SignQueue, TypeOK, JobFits, CallFits
    <2>3. LockerFits'
        BY <1>0, <1>8 DEF SignQueue, TypeOK, AccessTypeOK, LockerFits
    <2>4. QED
        BY <2>1, <2>2, <2>3 DEF PositionsFit
<1>9. ASSUME NEW t \in SignCalls, SignStops(t)
      PROVE  PositionsFit'
    <2>1. CallFits'
        BY <1>0, <1>9 DEF SignStops, TypeOK, CallFits, JobFits
    <2>2. JobFits'
        BY <1>0, <1>9 DEF SignStops, TypeOK, JobFits, CallFits
    <2>3. LockerFits'
        BY <1>0, <1>9 DEF SignStops, TypeOK, AccessTypeOK, LockerFits
    <2>4. QED
        BY <2>1, <2>2, <2>3 DEF PositionsFit
<1>10. ASSUME NEW t \in PayCalls, Pay(t)
      PROVE  PositionsFit'
    <2>1. CallFits'
        BY <1>0, <1>10 DEF Pay, TypeOK, CallFits, JobFits
    <2>2. JobFits'
        BY <1>0, <1>10 DEF Pay, TypeOK, JobFits, CallFits
    <2>3. LockerFits'
        BY <1>0, <1>10 DEF Pay, TypeOK, AccessTypeOK, LockerFits
    <2>4. QED
        BY <2>1, <2>2, <2>3 DEF PositionsFit
<1>11. ASSUME NEW t \in PayCalls, PayQueue(t)
      PROVE  PositionsFit'
    <2>1. CallFits'
        BY <1>0, <1>11 DEF PayQueue, TypeOK, CallFits, JobFits
    <2>2. JobFits'
        BY <1>0, <1>11 DEF PayQueue, TypeOK, JobFits, CallFits
    <2>3. LockerFits'
        BY <1>0, <1>11 DEF PayQueue, TypeOK, AccessTypeOK, LockerFits
    <2>4. QED
        BY <2>1, <2>2, <2>3 DEF PositionsFit
<1>12. ASSUME NEW u \in Tenants, Grant(u)
      PROVE  PositionsFit'
    <2>1. CallFits'
        BY <1>0, <1>12 DEF Grant, TypeOK, CallFits, JobFits
    <2>2. JobFits'
        BY <1>0, <1>12 DEF Grant, TypeOK, JobFits, CallFits
    <2>3. LockerFits'
        BY <1>0, <1>12 DEF Grant, TypeOK, AccessTypeOK, LockerFits
    <2>4. QED
        BY <2>1, <2>2, <2>3 DEF PositionsFit
<1>13. ASSUME NEW u \in Tenants, Revoke(u)
      PROVE  PositionsFit'
    <2>1. CallFits'
        BY <1>0, <1>13 DEF Revoke, TypeOK, CallFits, JobFits
    <2>2. JobFits'
        BY <1>0, <1>13 DEF Revoke, TypeOK, JobFits, CallFits
    <2>3. LockerFits'
        BY <1>0, <1>13 DEF Revoke, TypeOK, AccessTypeOK, LockerFits
    <2>4. QED
        BY <2>1, <2>2, <2>3 DEF PositionsFit
<1>14. ASSUME NEW c \in Calls, NEW t \in Jobs, TakeJob(c, t)
      PROVE  PositionsFit'
    <2>1. CallFits'
        BY <1>0, <1>14 DEF TakeJob, TypeOK, CallFits, JobFits
    <2>2. JobFits'
        BY <1>0, <1>14 DEF TakeJob, TypeOK, JobFits, CallFits
    <2>3. LockerFits'
        BY <1>0, <1>14 DEF TakeJob, TypeOK, AccessTypeOK, LockerFits
    <2>4. QED
        BY <2>1, <2>2, <2>3 DEF PositionsFit
<1>15. ASSUME NEW c \in Calls, NEW k \in DOMAIN Entry, NEW a \in Agreements, DeskCall(c, k, a)
      PROVE  PositionsFit'
    <2>1. CallFits'
        BY <1>0, <1>15 DEF DeskCall, TypeOK, CallFits, JobFits
    <2>2. JobFits'
        BY <1>0, <1>15 DEF DeskCall, TypeOK, JobFits, CallFits
    <2>3. LockerFits'
        BY <1>0, <1>15 DEF DeskCall, TypeOK, AccessTypeOK, LockerFits
    <2>4. QED
        BY <2>1, <2>2, <2>3 DEF PositionsFit
<1>16. ASSUME NEW c \in Calls, Readiness(c)
      PROVE  PositionsFit'
    <2>1. CallFits'
        BY <1>0, <1>16 DEF Readiness, CanActivate, Goto, Return, Leave, TypeOK, CallFits, JobFits
    <2>2. JobFits'
        BY <1>0, <1>16 DEF Readiness, CanActivate, Goto, Return, Leave, TypeOK, JobFits, CallFits
    <2>3. LockerFits'
        BY <1>0, <1>16 DEF Readiness, CanActivate, Goto, Return, Leave, TypeOK, AccessTypeOK, LockerFits
    <2>4. QED
        BY <2>1, <2>2, <2>3 DEF PositionsFit
<1>17. ASSUME NEW c \in Calls, Begin(c)
      PROVE  PositionsFit'
    <2>1. CallFits'
        BY <1>0, <1>17 DEF Begin, Goto, Throw, Leave, TypeOK, CallFits, JobFits
    <2>2. JobFits'
        <3>1. CASE Throw(c)
            BY <1>17, <3>1, ThrowKeepsJobs DEF Begin
        <3>2. CASE ~Throw(c)
            BY <1>0, <1>17, <3>2 DEF Begin, Goto, TypeOK, JobFits, CallFits
        <3>3. QED
            BY <3>1, <3>2
    <2>3. LockerFits'
        BY <1>0, <1>17 DEF Begin, Goto, Throw, Leave, TypeOK, AccessTypeOK, LockerFits
    <2>4. QED
        BY <2>1, <2>2, <2>3 DEF PositionsFit
<1>18. ASSUME NEW c \in Calls, CheckSignatures(c)
      PROVE  PositionsFit'
    <2>1. CallFits'
        BY <1>0, <1>18 DEF CheckSignatures, Goto, Throw, Leave, TypeOK, CallFits, JobFits
    <2>2. JobFits'
        <3>1. CASE Throw(c)
            BY <1>18, <3>1, ThrowKeepsJobs DEF CheckSignatures
        <3>2. CASE ~Throw(c)
            BY <1>0, <1>18, <3>2 DEF CheckSignatures, Goto, TypeOK, JobFits, CallFits
        <3>3. QED
            BY <3>1, <3>2
    <2>3. LockerFits'
        BY <1>0, <1>18 DEF CheckSignatures, Goto, Throw, Leave, TypeOK, AccessTypeOK, LockerFits
    <2>4. QED
        BY <2>1, <2>2, <2>3 DEF PositionsFit
<1>19. ASSUME NEW c \in Calls, CheckMandate(c)
      PROVE  PositionsFit'
    <2>1. CallFits'
        BY <1>0, <1>19 DEF CheckMandate, Goto, Throw, Leave, TypeOK, CallFits, JobFits
    <2>2. JobFits'
        <3>1. CASE Throw(c)
            BY <1>19, <3>1, ThrowKeepsJobs DEF CheckMandate
        <3>2. CASE ~Throw(c)
            BY <1>0, <1>19, <3>2 DEF CheckMandate, Goto, TypeOK, JobFits, CallFits
        <3>3. QED
            BY <3>1, <3>2
    <2>3. LockerFits'
        BY <1>0, <1>19 DEF CheckMandate, Goto, Throw, Leave, TypeOK, AccessTypeOK, LockerFits
    <2>4. QED
        BY <2>1, <2>2, <2>3 DEF PositionsFit
<1>20. ASSUME NEW c \in Calls, Activate(c)
      PROVE  PositionsFit'
    <2>1. CallFits'
        BY <1>0, <1>20 DEF Activate, Goto, TypeOK, CallFits, JobFits
    <2>2. JobFits'
        BY <1>0, <1>20 DEF Activate, Goto, TypeOK, JobFits, CallFits
    <2>3. LockerFits'
        BY <1>0, <1>20 DEF Activate, Goto, TypeOK, AccessTypeOK, LockerFits
    <2>4. QED
        BY <2>1, <2>2, <2>3 DEF PositionsFit
<1>21. ASSUME NEW c \in Calls, CallThrows(c)
      PROVE  PositionsFit'
    <2>1. CallFits'
        BY <1>0, <1>21 DEF CallThrows, Throw, Leave, TypeOK, CallFits, JobFits
    <2>2. JobFits'
        BY <1>21, ThrowKeepsJobs DEF CallThrows
    <2>3. LockerFits'
        BY <1>0, <1>21 DEF CallThrows, Throw, Leave, TypeOK, AccessTypeOK, LockerFits
    <2>4. QED
        BY <2>1, <2>2, <2>3 DEF PositionsFit
<1>22. ASSUME NEW c \in Calls, Emit(c)
      PROVE  PositionsFit'
    <2>1. CallFits'
        BY <1>0, <1>22 DEF Emit, Goto, Return, Leave, TypeOK, CallFits, JobFits
    <2>2. JobFits'
        BY <1>0, <1>22 DEF Emit, Goto, Return, Leave, TypeOK, JobFits, CallFits
    <2>3. LockerFits'
        BY <1>0, <1>22 DEF Emit, Goto, Return, Leave, TypeOK, AccessTypeOK, LockerFits
    <2>4. QED
        BY <2>1, <2>2, <2>3 DEF PositionsFit
<1>23. ASSUME NEW c \in Calls, LookUp(c)
      PROVE  PositionsFit'
    <2>1. CallFits'
        BY <1>0, <1>23 DEF LookUp, Goto, TypeOK, CallFits, JobFits
    <2>2. JobFits'
        BY <1>0, <1>23 DEF LookUp, Goto, TypeOK, JobFits, CallFits
    <2>3. LockerFits'
        BY <1>0, <1>23 DEF LookUp, Goto, TypeOK, AccessTypeOK, LockerFits
    <2>4. QED
        BY <2>1, <2>2, <2>3 DEF PositionsFit
<1>24. ASSUME NEW c \in Calls, CallAsks(c)
      PROVE  PositionsFit'
    <2>1. CallFits'
        BY <1>0, <1>24 DEF CallAsks, Goto, TypeOK, CallFits, JobFits
    <2>2. JobFits'
        BY <1>0, <1>24 DEF CallAsks, Goto, TypeOK, JobFits, CallFits
    <2>3. LockerFits'
        BY <1>0, <1>24 DEF CallAsks, Goto, TypeOK, AccessTypeOK, LockerFits
    <2>4. QED
        BY <2>1, <2>2, <2>3 DEF PositionsFit
<1>25. ASSUME NEW c \in Calls, CallCreates(c)
      PROVE  PositionsFit'
    <2>1. CallFits'
        BY <1>0, <1>25
        DEF CallCreates, CanCreate, CreateRow, Goto, Return, Throw, Leave, TypeOK, CallFits, JobFits
    <2>2. JobFits'
        <3>1. CASE ~CanCreate(con[c])
            BY <1>25, <3>1, ThrowKeepsJobs DEF CallCreates
        <3>2. CASE CanCreate(con[c]) /\ kind[c] = "issue"
            BY <1>0, <1>25, <3>2 DEF CallCreates, Return, Leave, TypeOK, JobFits
        <3>3. CASE CanCreate(con[c]) /\ kind[c] # "issue"
            BY <1>0, <1>25, <3>3 DEF CallCreates, Goto, TypeOK, JobFits
        <3>4. QED
            BY <3>1, <3>2, <3>3
    <2>3. LockerFits'
        BY <1>0, <1>25
        DEF CallCreates, CanCreate, CreateRow, Goto, Return, Throw, Leave, TypeOK, AccessTypeOK, LockerFits
    <2>4. QED
        BY <2>1, <2>2, <2>3 DEF PositionsFit
<1>26. ASSUME NEW c \in Calls, CallReleases(c)
      PROVE  PositionsFit'
    <2>1. CallFits'
        BY <1>0, <1>26 DEF CallReleases, Release, Goto, TypeOK, CallFits, JobFits
    <2>2. JobFits'
        BY <1>0, <1>26 DEF CallReleases, Release, Goto, TypeOK, JobFits, CallFits
    <2>3. LockerFits'
        BY <1>0, <1>26 DEF CallReleases, Release, Goto, TypeOK, AccessTypeOK, LockerFits
    <2>4. QED
        BY <2>1, <2>2, <2>3 DEF PositionsFit
<1>27. ASSUME NEW c \in Calls, Occupy(c)
      PROVE  PositionsFit'
    <2>1. CallFits'
        BY <1>0, <1>27 DEF Occupy, Return, Leave, TypeOK, CallFits, JobFits
    <2>2. JobFits'
        BY <1>0, <1>27 DEF Occupy, Return, Leave, TypeOK, JobFits, CallFits
    <2>3. LockerFits'
        BY <1>0, <1>27 DEF Occupy, Return, Leave, TypeOK, AccessTypeOK, LockerFits
    <2>4. QED
        BY <2>1, <2>2, <2>3 DEF PositionsFit
<1>28. ASSUME NEW c \in Calls, HandlerAsks(c)
      PROVE  PositionsFit'
    <2>1. CallFits'
        BY <1>0, <1>28 DEF HandlerAsks, TypeOK, CallFits, JobFits
    <2>2. JobFits'
        BY <1>0, <1>28 DEF HandlerAsks, TypeOK, JobFits, CallFits
    <2>3. LockerFits'
        BY <1>0, <1>28 DEF HandlerAsks, TypeOK, AccessTypeOK, LockerFits
    <2>4. QED
        BY <2>1, <2>2, <2>3 DEF PositionsFit
<1>29. ASSUME NEW c \in Calls, HandlerCreates(c)
      PROVE  PositionsFit'
    <2>1. CallFits'
        BY <1>0, <1>29 DEF HandlerCreates, CanCreate, CreateRow, TypeOK, CallFits, JobFits
    <2>2. JobFits'
        BY <1>0, <1>29 DEF HandlerCreates, CanCreate, CreateRow, TypeOK, JobFits, CallFits
    <2>3. LockerFits'
        BY <1>0, <1>29 DEF HandlerCreates, CanCreate, CreateRow, TypeOK, AccessTypeOK, LockerFits
    <2>4. QED
        BY <2>1, <2>2, <2>3 DEF PositionsFit
<1>30. ASSUME NEW c \in Calls, HandlerRejects(c)
      PROVE  PositionsFit'
    <2>1. CallFits'
        BY <1>0, <1>30 DEF HandlerRejects, CanCreate, ProcessDies, LockersStop, TypeOK, CallFits, JobFits
    <2>2. JobFits'
        BY <1>0, <1>30 DEF HandlerRejects, CanCreate, ProcessDies, LockersStop, TypeOK, JobFits, CallFits
    <2>3. LockerFits'
        BY <1>0, <1>30 DEF HandlerRejects, CanCreate, ProcessDies, LockersStop, TypeOK, AccessTypeOK, LockerFits
    <2>4. QED
        BY <2>1, <2>2, <2>3 DEF PositionsFit
<1>31. ASSUME NEW l \in Lockers, NEW m \in {"suspend", "restore"}, NEW a \in Agreements, DeskLock(l, m, a), UNCHANGED rentalVars
      PROVE  PositionsFit'
    <2>1. CallFits'
        BY <1>0, <1>31 DEF DeskLock, StartLocker, rentalVars, TypeOK, CallFits, JobFits
    <2>2. JobFits'
        BY <1>0, <1>31 DEF DeskLock, StartLocker, rentalVars, TypeOK, JobFits, CallFits
    <2>3. LockerFits'
        BY <1>0, <1>31 DEF DeskLock, StartLocker, rentalVars, TypeOK, AccessTypeOK, LockerFits
    <2>4. QED
        BY <2>1, <2>2, <2>3 DEF PositionsFit
<1>32. ASSUME NEW l \in Lockers, NEW m \in {"suspend", "restore"}, NEW u \in Tenants, InvoiceEvent(l, m, u, Active), UNCHANGED rentalVars
      PROVE  PositionsFit'
    <2>1. CallFits'
        BY <1>0, <1>32 DEF InvoiceEvent, StartLocker, Reach, Active, rentalVars, TypeOK, CallFits, JobFits
    <2>2. JobFits'
        BY <1>0, <1>32 DEF InvoiceEvent, StartLocker, Reach, Active, rentalVars, TypeOK, JobFits, CallFits
    <2>3. LockerFits'
        BY <1>0, <1>32
        DEF InvoiceEvent, StartLocker, Reach, Active, rentalVars, TypeOK, AccessTypeOK, LockerFits
    <2>4. QED
        BY <2>1, <2>2, <2>3 DEF PositionsFit
<1>33. ASSUME NEW l \in Lockers, SkipRow(l), UNCHANGED rentalVars
      PROVE  PositionsFit'
    <2>1. CallFits'
        BY <1>0, <1>33 DEF SkipRow, AfterRound, rentalVars, TypeOK, CallFits, JobFits
    <2>2. JobFits'
        BY <1>0, <1>33 DEF SkipRow, AfterRound, rentalVars, TypeOK, JobFits, CallFits
    <2>3. LockerFits'
        BY <1>0, <1>33 DEF SkipRow, AfterRound, rentalVars, TypeOK, AccessTypeOK, LockerFits
    <2>4. QED
        BY <2>1, <2>2, <2>3 DEF PositionsFit
<1>34. ASSUME NEW l \in Lockers, ReadRow(l), UNCHANGED rentalVars
      PROVE  PositionsFit'
    <2>1. CallFits'
        BY <1>0, <1>34 DEF ReadRow, HasWork, Opposed, rentalVars, TypeOK, CallFits, JobFits
    <2>2. JobFits'
        BY <1>0, <1>34 DEF ReadRow, HasWork, Opposed, rentalVars, TypeOK, JobFits, CallFits
    <2>3. LockerFits'
        BY <1>0, <1>34 DEF ReadRow, HasWork, Opposed, rentalVars, TypeOK, AccessTypeOK, LockerFits
    <2>4. QED
        BY <2>1, <2>2, <2>3 DEF PositionsFit
<1>35. ASSUME NEW l \in Lockers, TellVendor(l), UNCHANGED rentalVars
      PROVE  PositionsFit'
    <2>1. CallFits'
        BY <1>0, <1>35 DEF TellVendor, rentalVars, TypeOK, CallFits, JobFits
    <2>2. JobFits'
        BY <1>0, <1>35 DEF TellVendor, rentalVars, TypeOK, JobFits, CallFits
    <2>3. LockerFits'
        BY <1>0, <1>35 DEF TellVendor, rentalVars, TypeOK, AccessTypeOK, LockerFits
    <2>4. QED
        BY <2>1, <2>2, <2>3 DEF PositionsFit
<1>36. ASSUME NEW l \in Lockers, WriteRow(l), UNCHANGED rentalVars
      PROVE  PositionsFit'
    <2>1. CallFits'
        BY <1>0, <1>36 DEF WriteRow, AfterRound, rentalVars, TypeOK, CallFits, JobFits
    <2>2. JobFits'
        BY <1>0, <1>36 DEF WriteRow, AfterRound, rentalVars, TypeOK, JobFits, CallFits
    <2>3. LockerFits'
        BY <1>0, <1>36 DEF WriteRow, AfterRound, rentalVars, TypeOK, AccessTypeOK, LockerFits
    <2>4. QED
        BY <2>1, <2>2, <2>3 DEF PositionsFit
<1>37. ASSUME NEW t \in PayCalls, PayStops(t)
      PROVE  PositionsFit'
    <2>1. CallFits'
        BY <1>0, <1>37 DEF PayStops, TypeOK, CallFits, JobFits
    <2>2. JobFits'
        BY <1>0, <1>37 DEF PayStops, TypeOK, JobFits, CallFits
    <2>3. LockerFits'
        BY <1>0, <1>37 DEF PayStops, TypeOK, AccessTypeOK, LockerFits
    <2>4. QED
        BY <2>1, <2>2, <2>3 DEF PositionsFit
<1>38. ASSUME NEW a \in Agreements, Bill(a)
      PROVE  PositionsFit'
    <2>1. CallFits'
        BY <1>0, <1>38 DEF Bill, TypeOK, CallFits, JobFits
    <2>2. JobFits'
        BY <1>0, <1>38 DEF Bill, TypeOK, JobFits, CallFits
    <2>3. LockerFits'
        BY <1>0, <1>38 DEF Bill, TypeOK, AccessTypeOK, LockerFits
    <2>4. QED
        BY <2>1, <2>2, <2>3 DEF PositionsFit
<1>39. ASSUME NEW a \in Agreements, CloseQuietly(a)
      PROVE  PositionsFit'
    <2>1. CallFits'
        BY <1>0, <1>39 DEF CloseQuietly, TypeOK, CallFits, JobFits
    <2>2. JobFits'
        BY <1>0, <1>39 DEF CloseQuietly, TypeOK, JobFits, CallFits
    <2>3. LockerFits'
        BY <1>0, <1>39 DEF CloseQuietly, TypeOK, AccessTypeOK, LockerFits
    <2>4. QED
        BY <2>1, <2>2, <2>3 DEF PositionsFit
<1>40. ASSUME NEW l \in Lockers, LockerThrows(l)
      PROVE  PositionsFit'
    <2>1. CallFits'
        BY <1>0, <1>40 DEF LockerThrows, ProcessDies, LockersStop, TypeOK, CallFits, JobFits
    <2>2. JobFits'
        BY <1>0, <1>40 DEF LockerThrows, ProcessDies, LockersStop, TypeOK, JobFits, CallFits
    <2>3. LockerFits'
        BY <1>0, <1>40 DEF LockerThrows, ProcessDies, LockersStop, TypeOK, AccessTypeOK, LockerFits
    <2>4. QED
        BY <2>1, <2>2, <2>3 DEF PositionsFit
<1>41. QED
    <2>1. CASE \E a \in Agreements : SendStatus(a) \/ SendRows(a) \/ DeskRelease(a) \/ Bill(a) \/ CloseQuietly(a)
        BY <2>1, <1>1, <1>2, <1>3, <1>38, <1>39
    <2>2. CASE \E t \in SignCalls : SignFind(t) \/ SignStep(t) \/ SignStops(t)
        BY <2>2, <1>4, <1>5, <1>6, <1>7, <1>8, <1>9 DEF SignStep
    <2>3. CASE \E t \in PayCalls : Pay(t) \/ PayQueue(t) \/ PayStops(t)
        BY <2>3, <1>10, <1>11, <1>37
    <2>4. CASE \E tenant \in Tenants : Grant(tenant) \/ Revoke(tenant)
        BY <2>4, <1>12, <1>13
    <2>5. CASE \E c \in Calls, t \in Jobs : TakeJob(c, t)
        BY <2>5, <1>14
    <2>6. CASE \E c \in Calls, k \in DOMAIN Entry, a \in Agreements : DeskCall(c, k, a)
        BY <2>6, <1>15
    <2>7. CASE \E c \in Calls : CallStep(c)
        BY <2>7, <1>16, <1>17, <1>18, <1>19, <1>20, <1>21, <1>22, <1>23, <1>24, <1>25, <1>26, <1>27 DEF CallStep
    <2>8. CASE \E c \in Calls : HandlerStep(c)
        BY <2>8, <1>28, <1>29, <1>30 DEF HandlerStep
    <2>9. CASE \E l \in Lockers : Lock(l)
        BY <2>9, <1>31, <1>32, <1>33, <1>34, <1>35, <1>36, TenantOfAssumption DEF Lock, LockerStep, rentalVars
    <2>10. CASE \E l \in Lockers : LockerThrows(l)
        BY <2>10, <1>40
    <2>11. QED
        BY <2>1, <2>2, <2>3, <2>4, <2>5, <2>6, <2>7, <2>8, <2>9, <2>10 DEF Next

-----------------------------------------------------------------------------
(* What has been signed, granted or paid is remembered. *)
Remembered ==
    /\ \A a \in Agreements : Complete(signatories[a]) => a \in everSigned
    /\ mandated \subseteq everMandated
    /\ Agreements \ openInvoice \subseteq everPaid

(* What the checks that an activation has passed have shown. *)
ChecksShow ==
    \A c \in Calls :
        /\ cpc[c] \in {"mandate", "activate"} => con[c] \in everSigned
        /\ cpc[c] = "activate" => TenantOf[con[c]] \in everMandated
        /\ cpc[c] \in {"emit", "lookup", "release", "occupy"} => Entitled(con[c])
        /\ cpc[c] \in {"ask", "create"} /\ kind[c] # "issue" => Entitled(con[c])

(* A job goes on only if the invoices were paid, and everything else is the desk's. *)
JobsArePaid ==
    \A c \in Calls :
        cpc[c] \notin {"idle", "ready"} => con[c] \in deskTouched \/ con[c] \in everPaid

EarnedInv == FitInv /\ Remembered /\ ChecksShow /\ JobsArePaid /\ AccessIsEarned

(* Every step keeps that. *)
LEMMA NextEarned == EarnedInv /\ Next => Remembered' /\ ChecksShow' /\ JobsArePaid' /\ AccessIsEarned'
<1> SUFFICES ASSUME EarnedInv, Next
             PROVE  Remembered' /\ ChecksShow' /\ JobsArePaid' /\ AccessIsEarned'
    OBVIOUS
<1> USE AboutAssumption, NoAgreementAssumption, TenantOfAssumption, EntryFits
    DEF Happens, keyVars, lockerVars, lockHistory, doorVars, accessVars, paperVars, partyVars, signVars, jobVars,
        callVars, handlerVars, rentalHistory, Jobs
<1>0. FitInv /\ TypeOK /\ CallFits /\ Remembered /\ ChecksShow /\ JobsArePaid /\ AccessIsEarned
    BY DEF EarnedInv, FitInv
<1>1. ASSUME NEW a \in Agreements, SendStatus(a)
      PROVE  Remembered' /\ ChecksShow' /\ JobsArePaid' /\ AccessIsEarned'
    <2>1. Remembered'
        BY <1>0, <1>1 DEF SendStatus, TypeOK, Remembered
    <2>2. ChecksShow'
        BY <1>0, <1>1 DEF SendStatus, TypeOK, CallFits, Remembered, ChecksShow, Entitled, AccessIsEarned
    <2>3. JobsArePaid'
        BY <1>0, <1>1 DEF SendStatus, TypeOK, CallFits, JobsArePaid
    <2>4. AccessIsEarned'
        BY <1>0, <1>1
        DEF SendStatus, TypeOK, AccessTypeOK, CallFits, ChecksShow, Entitled, JobsArePaid, AccessIsEarned
    <2>5. QED
        BY <2>1, <2>2, <2>3, <2>4
<1>2. ASSUME NEW a \in Agreements, SendRows(a)
      PROVE  Remembered' /\ ChecksShow' /\ JobsArePaid' /\ AccessIsEarned'
    <2>1. Remembered'
        BY <1>0, <1>2 DEF SendRows, SetRows, TypeOK, Remembered
    <2>2. ChecksShow'
        BY <1>0, <1>2 DEF SendRows, SetRows, TypeOK, CallFits, Remembered, ChecksShow, Entitled, AccessIsEarned
    <2>3. JobsArePaid'
        BY <1>0, <1>2 DEF SendRows, SetRows, TypeOK, CallFits, JobsArePaid
    <2>4. AccessIsEarned'
        BY <1>0, <1>2
        DEF SendRows, SetRows, TypeOK, AccessTypeOK, CallFits, ChecksShow, Entitled, JobsArePaid, AccessIsEarned
    <2>5. QED
        BY <2>1, <2>2, <2>3, <2>4
<1>3. ASSUME NEW a \in Agreements, DeskRelease(a)
      PROVE  Remembered' /\ ChecksShow' /\ JobsArePaid' /\ AccessIsEarned'
    <2>1. Remembered'
        BY <1>0, <1>3 DEF DeskRelease, Release, TypeOK, Remembered
    <2>2. ChecksShow'
        BY <1>0, <1>3 DEF DeskRelease, Release, TypeOK, CallFits, Remembered, ChecksShow, Entitled, AccessIsEarned
    <2>3. JobsArePaid'
        BY <1>0, <1>3 DEF DeskRelease, Release, TypeOK, CallFits, JobsArePaid
    <2>4. AccessIsEarned'
        BY <1>0, <1>3
        DEF DeskRelease, Release, TypeOK, AccessTypeOK, CallFits, ChecksShow, Entitled, JobsArePaid,
            AccessIsEarned
    <2>5. QED
        BY <2>1, <2>2, <2>3, <2>4
<1>4. ASSUME NEW t \in SignCalls, SignFind(t)
      PROVE  Remembered' /\ ChecksShow' /\ JobsArePaid' /\ AccessIsEarned'
    <2>1. Remembered'
        BY <1>0, <1>4 DEF SignFind, TypeOK, Remembered
    <2>2. ChecksShow'
        BY <1>0, <1>4 DEF SignFind, TypeOK, CallFits, Remembered, ChecksShow, Entitled, AccessIsEarned
    <2>3. JobsArePaid'
        BY <1>0, <1>4 DEF SignFind, TypeOK, CallFits, JobsArePaid
    <2>4. AccessIsEarned'
        BY <1>0, <1>4
        DEF SignFind, TypeOK, AccessTypeOK, CallFits, ChecksShow, Entitled, JobsArePaid, AccessIsEarned
    <2>5. QED
        BY <2>1, <2>2, <2>3, <2>4
<1>5. ASSUME NEW t \in SignCalls, SignRow(t)
      PROVE  Remembered' /\ ChecksShow' /\ JobsArePaid' /\ AccessIsEarned'
    <2>1. Remembered'
        BY <1>0, <1>5 DEF SignRow, SetRows, TypeOK, Remembered
    <2>2. ChecksShow'
        BY <1>0, <1>5 DEF SignRow, SetRows, TypeOK, CallFits, Remembered, ChecksShow, Entitled, AccessIsEarned
    <2>3. JobsArePaid'
        BY <1>0, <1>5 DEF SignRow, SetRows, TypeOK, CallFits, JobsArePaid
    <2>4. AccessIsEarned'
        BY <1>0, <1>5
        DEF SignRow, SetRows, TypeOK, AccessTypeOK, CallFits, ChecksShow, Entitled, JobsArePaid, AccessIsEarned
    <2>5. QED
        BY <2>1, <2>2, <2>3, <2>4
<1>6. ASSUME NEW t \in SignCalls, SignCheck(t)
      PROVE  Remembered' /\ ChecksShow' /\ JobsArePaid' /\ AccessIsEarned'
    <2>1. Remembered'
        BY <1>0, <1>6 DEF SignCheck, TypeOK, Remembered
    <2>2. ChecksShow'
        BY <1>0, <1>6 DEF SignCheck, TypeOK, CallFits, Remembered, ChecksShow, Entitled, AccessIsEarned
    <2>3. JobsArePaid'
        BY <1>0, <1>6 DEF SignCheck, TypeOK, CallFits, JobsArePaid
    <2>4. AccessIsEarned'
        BY <1>0, <1>6
        DEF SignCheck, TypeOK, AccessTypeOK, CallFits, ChecksShow, Entitled, JobsArePaid, AccessIsEarned
    <2>5. QED
        BY <2>1, <2>2, <2>3, <2>4
<1>7. ASSUME NEW t \in SignCalls, SignWrite(t)
      PROVE  Remembered' /\ ChecksShow' /\ JobsArePaid' /\ AccessIsEarned'
    <2>1. Remembered'
        BY <1>0, <1>7 DEF SignWrite, TypeOK, Remembered
    <2>2. ChecksShow'
        BY <1>0, <1>7 DEF SignWrite, TypeOK, CallFits, Remembered, ChecksShow, Entitled, AccessIsEarned
    <2>3. JobsArePaid'
        BY <1>0, <1>7 DEF SignWrite, TypeOK, CallFits, JobsArePaid
    <2>4. AccessIsEarned'
        BY <1>0, <1>7
        DEF SignWrite, TypeOK, AccessTypeOK, CallFits, ChecksShow, Entitled, JobsArePaid, AccessIsEarned
    <2>5. QED
        BY <2>1, <2>2, <2>3, <2>4
<1>8. ASSUME NEW t \in SignCalls, SignQueue(t)
      PROVE  Remembered' /\ ChecksShow' /\ JobsArePaid' /\ AccessIsEarned'
    <2>1. Remembered'
        BY <1>0, <1>8 DEF SignQueue, TypeOK, Remembered
    <2>2. ChecksShow'
        BY <1>0, <1>8 DEF SignQueue, TypeOK, CallFits, Remembered, ChecksShow, Entitled, AccessIsEarned
    <2>3. JobsArePaid'
        BY <1>0, <1>8 DEF SignQueue, TypeOK, CallFits, JobsArePaid
    <2>4. AccessIsEarned'
        BY <1>0, <1>8
        DEF SignQueue, TypeOK, AccessTypeOK, CallFits, ChecksShow, Entitled, JobsArePaid, AccessIsEarned
    <2>5. QED
        BY <2>1, <2>2, <2>3, <2>4
<1>9. ASSUME NEW t \in SignCalls, SignStops(t)
      PROVE  Remembered' /\ ChecksShow' /\ JobsArePaid' /\ AccessIsEarned'
    <2>1. Remembered'
        BY <1>0, <1>9 DEF SignStops, TypeOK, Remembered
    <2>2. ChecksShow'
        BY <1>0, <1>9 DEF SignStops, TypeOK, CallFits, Remembered, ChecksShow, Entitled, AccessIsEarned
    <2>3. JobsArePaid'
        BY <1>0, <1>9 DEF SignStops, TypeOK, CallFits, JobsArePaid
    <2>4. AccessIsEarned'
        BY <1>0, <1>9
        DEF SignStops, TypeOK, AccessTypeOK, CallFits, ChecksShow, Entitled, JobsArePaid, AccessIsEarned
    <2>5. QED
        BY <2>1, <2>2, <2>3, <2>4
<1>10. ASSUME NEW t \in PayCalls, Pay(t)
      PROVE  Remembered' /\ ChecksShow' /\ JobsArePaid' /\ AccessIsEarned'
    <2>1. Remembered'
        BY <1>0, <1>10 DEF Pay, TypeOK, Remembered
    <2>2. ChecksShow'
        BY <1>0, <1>10 DEF Pay, TypeOK, CallFits, Remembered, ChecksShow, Entitled, AccessIsEarned
    <2>3. JobsArePaid'
        BY <1>0, <1>10 DEF Pay, TypeOK, CallFits, JobsArePaid
    <2>4. AccessIsEarned'
        BY <1>0, <1>10 DEF Pay, TypeOK, AccessTypeOK, CallFits, ChecksShow, Entitled, JobsArePaid, AccessIsEarned
    <2>5. QED
        BY <2>1, <2>2, <2>3, <2>4
<1>11. ASSUME NEW t \in PayCalls, PayQueue(t)
      PROVE  Remembered' /\ ChecksShow' /\ JobsArePaid' /\ AccessIsEarned'
    <2>1. Remembered'
        BY <1>0, <1>11 DEF PayQueue, TypeOK, Remembered
    <2>2. ChecksShow'
        BY <1>0, <1>11 DEF PayQueue, TypeOK, CallFits, Remembered, ChecksShow, Entitled, AccessIsEarned
    <2>3. JobsArePaid'
        BY <1>0, <1>11 DEF PayQueue, TypeOK, CallFits, JobsArePaid
    <2>4. AccessIsEarned'
        BY <1>0, <1>11
        DEF PayQueue, TypeOK, AccessTypeOK, CallFits, ChecksShow, Entitled, JobsArePaid, AccessIsEarned
    <2>5. QED
        BY <2>1, <2>2, <2>3, <2>4
<1>12. ASSUME NEW u \in Tenants, Grant(u)
      PROVE  Remembered' /\ ChecksShow' /\ JobsArePaid' /\ AccessIsEarned'
    <2>1. Remembered'
        BY <1>0, <1>12 DEF Grant, TypeOK, Remembered
    <2>2. ChecksShow'
        BY <1>0, <1>12 DEF Grant, TypeOK, CallFits, Remembered, ChecksShow, Entitled, AccessIsEarned
    <2>3. JobsArePaid'
        BY <1>0, <1>12 DEF Grant, TypeOK, CallFits, JobsArePaid
    <2>4. AccessIsEarned'
        BY <1>0, <1>12
        DEF Grant, TypeOK, AccessTypeOK, CallFits, ChecksShow, Entitled, JobsArePaid, AccessIsEarned
    <2>5. QED
        BY <2>1, <2>2, <2>3, <2>4
<1>13. ASSUME NEW u \in Tenants, Revoke(u)
      PROVE  Remembered' /\ ChecksShow' /\ JobsArePaid' /\ AccessIsEarned'
    <2>1. Remembered'
        BY <1>0, <1>13 DEF Revoke, TypeOK, Remembered
    <2>2. ChecksShow'
        BY <1>0, <1>13 DEF Revoke, TypeOK, CallFits, Remembered, ChecksShow, Entitled, AccessIsEarned
    <2>3. JobsArePaid'
        BY <1>0, <1>13 DEF Revoke, TypeOK, CallFits, JobsArePaid
    <2>4. AccessIsEarned'
        BY <1>0, <1>13
        DEF Revoke, TypeOK, AccessTypeOK, CallFits, ChecksShow, Entitled, JobsArePaid, AccessIsEarned
    <2>5. QED
        BY <2>1, <2>2, <2>3, <2>4
<1>14. ASSUME NEW c \in Calls, NEW t \in Jobs, TakeJob(c, t)
      PROVE  Remembered' /\ ChecksShow' /\ JobsArePaid' /\ AccessIsEarned'
    <2>1. Remembered'
        BY <1>0, <1>14 DEF TakeJob, TypeOK, Remembered
    <2>2. ChecksShow'
        BY <1>0, <1>14 DEF TakeJob, TypeOK, CallFits, Remembered, ChecksShow, Entitled, AccessIsEarned
    <2>3. JobsArePaid'
        BY <1>0, <1>14 DEF TakeJob, TypeOK, CallFits, JobsArePaid
    <2>4. AccessIsEarned'
        BY <1>0, <1>14
        DEF TakeJob, TypeOK, AccessTypeOK, CallFits, ChecksShow, Entitled, JobsArePaid, AccessIsEarned
    <2>5. QED
        BY <2>1, <2>2, <2>3, <2>4
<1>15. ASSUME NEW c \in Calls, NEW k \in DOMAIN Entry, NEW a \in Agreements, DeskCall(c, k, a)
      PROVE  Remembered' /\ ChecksShow' /\ JobsArePaid' /\ AccessIsEarned'
    <2>1. Remembered'
        BY <1>0, <1>15 DEF DeskCall, TypeOK, Remembered
    <2>2. ChecksShow'
        BY <1>0, <1>15 DEF DeskCall, TypeOK, CallFits, Remembered, ChecksShow, Entitled, AccessIsEarned
    <2>3. JobsArePaid'
        BY <1>0, <1>15 DEF DeskCall, TypeOK, CallFits, JobsArePaid
    <2>4. AccessIsEarned'
        BY <1>0, <1>15
        DEF DeskCall, TypeOK, AccessTypeOK, CallFits, ChecksShow, Entitled, JobsArePaid, AccessIsEarned
    <2>5. QED
        BY <2>1, <2>2, <2>3, <2>4
<1>16. ASSUME NEW c \in Calls, Readiness(c)
      PROVE  Remembered' /\ ChecksShow' /\ JobsArePaid' /\ AccessIsEarned'
    <2>1. Remembered'
        BY <1>0, <1>16 DEF Readiness, CanActivate, Goto, Return, Leave, TypeOK, Remembered
    <2>2. ChecksShow'
        BY <1>0, <1>16
        DEF Readiness, CanActivate, Goto, Return, Leave, TypeOK, CallFits, Remembered, ChecksShow, Entitled,
            AccessIsEarned
    <2>3. JobsArePaid'
        BY <1>0, <1>16 DEF Readiness, CanActivate, Goto, Return, Leave, TypeOK, CallFits, Remembered, JobsArePaid
    <2>4. AccessIsEarned'
        BY <1>0, <1>16
        DEF Readiness, CanActivate, Goto, Return, Leave, TypeOK, AccessTypeOK, CallFits, ChecksShow, Entitled,
            JobsArePaid, AccessIsEarned
    <2>5. QED
        BY <2>1, <2>2, <2>3, <2>4
<1>17. ASSUME NEW c \in Calls, Begin(c)
      PROVE  Remembered' /\ ChecksShow' /\ JobsArePaid' /\ AccessIsEarned'
    <2>1. Remembered'
        BY <1>0, <1>17 DEF Begin, Goto, Throw, Leave, TypeOK, Remembered
    <2>2. ChecksShow'
        BY <1>0, <1>17
        DEF Begin, Goto, Throw, Leave, TypeOK, CallFits, Remembered, ChecksShow, Entitled, AccessIsEarned
    <2>3. JobsArePaid'
        BY <1>0, <1>17 DEF Begin, Goto, Throw, Leave, TypeOK, CallFits, JobsArePaid
    <2>4. AccessIsEarned'
        BY <1>0, <1>17
        DEF Begin, Goto, Throw, Leave, TypeOK, AccessTypeOK, CallFits, ChecksShow, Entitled, JobsArePaid,
            AccessIsEarned
    <2>5. QED
        BY <2>1, <2>2, <2>3, <2>4
<1>18. ASSUME NEW c \in Calls, CheckSignatures(c)
      PROVE  Remembered' /\ ChecksShow' /\ JobsArePaid' /\ AccessIsEarned'
    <2>1. Remembered'
        BY <1>0, <1>18 DEF CheckSignatures, Goto, Throw, Leave, TypeOK, Remembered
    <2>2. ChecksShow'
        BY <1>0, <1>18
        DEF CheckSignatures, Goto, Throw, Leave, TypeOK, CallFits, Remembered, ChecksShow, Entitled,
            AccessIsEarned
    <2>3. JobsArePaid'
        BY <1>0, <1>18 DEF CheckSignatures, Goto, Throw, Leave, TypeOK, CallFits, JobsArePaid
    <2>4. AccessIsEarned'
        BY <1>0, <1>18
        DEF CheckSignatures, Goto, Throw, Leave, TypeOK, AccessTypeOK, CallFits, ChecksShow, Entitled,
            JobsArePaid, AccessIsEarned
    <2>5. QED
        BY <2>1, <2>2, <2>3, <2>4
<1>19. ASSUME NEW c \in Calls, CheckMandate(c)
      PROVE  Remembered' /\ ChecksShow' /\ JobsArePaid' /\ AccessIsEarned'
    <2>1. Remembered'
        BY <1>0, <1>19 DEF CheckMandate, Goto, Throw, Leave, TypeOK, Remembered
    <2>2. ChecksShow'
        BY <1>0, <1>19
        DEF CheckMandate, Goto, Throw, Leave, TypeOK, CallFits, Remembered, ChecksShow, Entitled, AccessIsEarned
    <2>3. JobsArePaid'
        BY <1>0, <1>19 DEF CheckMandate, Goto, Throw, Leave, TypeOK, CallFits, JobsArePaid
    <2>4. AccessIsEarned'
        BY <1>0, <1>19
        DEF CheckMandate, Goto, Throw, Leave, TypeOK, AccessTypeOK, CallFits, ChecksShow, Entitled, JobsArePaid,
            AccessIsEarned
    <2>5. QED
        BY <2>1, <2>2, <2>3, <2>4
<1>20. ASSUME NEW c \in Calls, Activate(c)
      PROVE  Remembered' /\ ChecksShow' /\ JobsArePaid' /\ AccessIsEarned'
    <2>1. Remembered'
        BY <1>0, <1>20 DEF Activate, Goto, TypeOK, Remembered
    <2>2. ChecksShow'
        BY <1>0, <1>20 DEF Activate, Goto, TypeOK, CallFits, Remembered, ChecksShow, Entitled, AccessIsEarned
    <2>3. JobsArePaid'
        BY <1>0, <1>20 DEF Activate, Goto, TypeOK, CallFits, JobsArePaid
    <2>4. AccessIsEarned'
        BY <1>0, <1>20
        DEF Activate, Goto, TypeOK, AccessTypeOK, CallFits, ChecksShow, Entitled, JobsArePaid, AccessIsEarned
    <2>5. QED
        BY <2>1, <2>2, <2>3, <2>4
<1>21. ASSUME NEW c \in Calls, CallThrows(c)
      PROVE  Remembered' /\ ChecksShow' /\ JobsArePaid' /\ AccessIsEarned'
    <2>1. Remembered'
        BY <1>0, <1>21 DEF CallThrows, Throw, Leave, TypeOK, Remembered
    <2>2. ChecksShow'
        BY <1>0, <1>21
        DEF CallThrows, Throw, Leave, TypeOK, CallFits, Remembered, ChecksShow, Entitled, AccessIsEarned
    <2>3. JobsArePaid'
        BY <1>0, <1>21 DEF CallThrows, Throw, Leave, TypeOK, CallFits, JobsArePaid
    <2>4. AccessIsEarned'
        BY <1>0, <1>21
        DEF CallThrows, Throw, Leave, TypeOK, AccessTypeOK, CallFits, ChecksShow, Entitled, JobsArePaid,
            AccessIsEarned
    <2>5. QED
        BY <2>1, <2>2, <2>3, <2>4
<1>22. ASSUME NEW c \in Calls, Emit(c)
      PROVE  Remembered' /\ ChecksShow' /\ JobsArePaid' /\ AccessIsEarned'
    <2>1. Remembered'
        BY <1>0, <1>22 DEF Emit, Goto, Return, Leave, TypeOK, Remembered
    <2>2. ChecksShow'
        BY <1>0, <1>22
        DEF Emit, Goto, Return, Leave, TypeOK, CallFits, Remembered, ChecksShow, Entitled, AccessIsEarned
    <2>3. JobsArePaid'
        BY <1>0, <1>22 DEF Emit, Goto, Return, Leave, TypeOK, CallFits, JobsArePaid
    <2>4. AccessIsEarned'
        BY <1>0, <1>22
        DEF Emit, Goto, Return, Leave, TypeOK, AccessTypeOK, CallFits, ChecksShow, Entitled, JobsArePaid,
            AccessIsEarned
    <2>5. QED
        BY <2>1, <2>2, <2>3, <2>4
<1>23. ASSUME NEW c \in Calls, LookUp(c)
      PROVE  Remembered' /\ ChecksShow' /\ JobsArePaid' /\ AccessIsEarned'
    <2>1. Remembered'
        BY <1>0, <1>23 DEF LookUp, Goto, TypeOK, Remembered
    <2>2. ChecksShow'
        BY <1>0, <1>23 DEF LookUp, Goto, TypeOK, CallFits, Remembered, ChecksShow, Entitled, AccessIsEarned
    <2>3. JobsArePaid'
        BY <1>0, <1>23 DEF LookUp, Goto, TypeOK, CallFits, JobsArePaid
    <2>4. AccessIsEarned'
        BY <1>0, <1>23
        DEF LookUp, Goto, TypeOK, AccessTypeOK, CallFits, ChecksShow, Entitled, JobsArePaid, AccessIsEarned
    <2>5. QED
        BY <2>1, <2>2, <2>3, <2>4
<1>24. ASSUME NEW c \in Calls, CallAsks(c)
      PROVE  Remembered' /\ ChecksShow' /\ JobsArePaid' /\ AccessIsEarned'
    <2>1. Remembered'
        BY <1>0, <1>24 DEF CallAsks, Goto, TypeOK, Remembered
    <2>2. ChecksShow'
        BY <1>0, <1>24 DEF CallAsks, Goto, TypeOK, CallFits, Remembered, ChecksShow, Entitled, AccessIsEarned
    <2>3. JobsArePaid'
        BY <1>0, <1>24 DEF CallAsks, Goto, TypeOK, CallFits, JobsArePaid
    <2>4. AccessIsEarned'
        BY <1>0, <1>24
        DEF CallAsks, Goto, TypeOK, AccessTypeOK, CallFits, ChecksShow, Entitled, JobsArePaid, AccessIsEarned
    <2>5. QED
        BY <2>1, <2>2, <2>3, <2>4
<1>25. ASSUME NEW c \in Calls, CallCreates(c)
      PROVE  Remembered' /\ ChecksShow' /\ JobsArePaid' /\ AccessIsEarned'
    <2>1. Remembered'
        BY <1>0, <1>25 DEF CallCreates, CanCreate, CreateRow, Goto, Return, Throw, Leave, TypeOK, Remembered
    <2>2. ChecksShow'
        BY <1>0, <1>25
        DEF CallCreates, CanCreate, CreateRow, Goto, Return, Throw, Leave, TypeOK, CallFits, Remembered,
            ChecksShow, Entitled, AccessIsEarned
    <2>3. JobsArePaid'
        BY <1>0, <1>25
        DEF CallCreates, CanCreate, CreateRow, Goto, Return, Throw, Leave, TypeOK, CallFits, JobsArePaid
    <2>4. AccessIsEarned'
        BY <1>0, <1>25
        DEF CallCreates, CanCreate, CreateRow, Goto, Return, Throw, Leave, TypeOK, AccessTypeOK, CallFits,
            ChecksShow, Entitled, JobsArePaid, AccessIsEarned
    <2>5. QED
        BY <2>1, <2>2, <2>3, <2>4
<1>26. ASSUME NEW c \in Calls, CallReleases(c)
      PROVE  Remembered' /\ ChecksShow' /\ JobsArePaid' /\ AccessIsEarned'
    <2>1. Remembered'
        BY <1>0, <1>26 DEF CallReleases, Release, Goto, TypeOK, Remembered
    <2>2. ChecksShow'
        BY <1>0, <1>26
        DEF CallReleases, Release, Goto, TypeOK, CallFits, Remembered, ChecksShow, Entitled, AccessIsEarned
    <2>3. JobsArePaid'
        BY <1>0, <1>26 DEF CallReleases, Release, Goto, TypeOK, CallFits, JobsArePaid
    <2>4. AccessIsEarned'
        BY <1>0, <1>26
        DEF CallReleases, Release, Goto, TypeOK, AccessTypeOK, CallFits, ChecksShow, Entitled, JobsArePaid,
            AccessIsEarned
    <2>5. QED
        BY <2>1, <2>2, <2>3, <2>4
<1>27. ASSUME NEW c \in Calls, Occupy(c)
      PROVE  Remembered' /\ ChecksShow' /\ JobsArePaid' /\ AccessIsEarned'
    <2>1. Remembered'
        BY <1>0, <1>27 DEF Occupy, Return, Leave, TypeOK, Remembered
    <2>2. ChecksShow'
        BY <1>0, <1>27
        DEF Occupy, Return, Leave, TypeOK, CallFits, Remembered, ChecksShow, Entitled, AccessIsEarned
    <2>3. JobsArePaid'
        BY <1>0, <1>27 DEF Occupy, Return, Leave, TypeOK, CallFits, JobsArePaid
    <2>4. AccessIsEarned'
        BY <1>0, <1>27
        DEF Occupy, Return, Leave, TypeOK, AccessTypeOK, CallFits, ChecksShow, Entitled, JobsArePaid,
            AccessIsEarned
    <2>5. QED
        BY <2>1, <2>2, <2>3, <2>4
<1>28. ASSUME NEW c \in Calls, HandlerAsks(c)
      PROVE  Remembered' /\ ChecksShow' /\ JobsArePaid' /\ AccessIsEarned'
    <2>1. Remembered'
        BY <1>0, <1>28 DEF HandlerAsks, TypeOK, Remembered
    <2>2. ChecksShow'
        BY <1>0, <1>28 DEF HandlerAsks, TypeOK, CallFits, Remembered, ChecksShow, Entitled, AccessIsEarned
    <2>3. JobsArePaid'
        BY <1>0, <1>28 DEF HandlerAsks, TypeOK, CallFits, JobsArePaid
    <2>4. AccessIsEarned'
        BY <1>0, <1>28
        DEF HandlerAsks, TypeOK, AccessTypeOK, CallFits, ChecksShow, Entitled, JobsArePaid, AccessIsEarned
    <2>5. QED
        BY <2>1, <2>2, <2>3, <2>4
<1>29. ASSUME NEW c \in Calls, HandlerCreates(c)
      PROVE  Remembered' /\ ChecksShow' /\ JobsArePaid' /\ AccessIsEarned'
    <2>1. Remembered'
        BY <1>0, <1>29 DEF HandlerCreates, CanCreate, CreateRow, TypeOK, Remembered
    <2>2. ChecksShow'
        BY <1>0, <1>29
        DEF HandlerCreates, CanCreate, CreateRow, TypeOK, CallFits, Remembered, ChecksShow, Entitled,
            AccessIsEarned
    <2>3. JobsArePaid'
        BY <1>0, <1>29 DEF HandlerCreates, CanCreate, CreateRow, TypeOK, CallFits, JobsArePaid
    <2>4. AccessIsEarned'
        BY <1>0, <1>29
        DEF HandlerCreates, CanCreate, CreateRow, TypeOK, AccessTypeOK, CallFits, ChecksShow, Entitled,
            JobsArePaid, AccessIsEarned
    <2>5. QED
        BY <2>1, <2>2, <2>3, <2>4
<1>30. ASSUME NEW c \in Calls, HandlerRejects(c)
      PROVE  Remembered' /\ ChecksShow' /\ JobsArePaid' /\ AccessIsEarned'
    <2>1. Remembered'
        BY <1>0, <1>30 DEF HandlerRejects, CanCreate, ProcessDies, LockersStop, TypeOK, Remembered
    <2>2. ChecksShow'
        BY <1>0, <1>30
        DEF HandlerRejects, CanCreate, ProcessDies, LockersStop, TypeOK, CallFits, Remembered, ChecksShow,
            Entitled, AccessIsEarned
    <2>3. JobsArePaid'
        BY <1>0, <1>30 DEF HandlerRejects, CanCreate, ProcessDies, LockersStop, TypeOK, CallFits, JobsArePaid
    <2>4. AccessIsEarned'
        BY <1>0, <1>30
        DEF HandlerRejects, CanCreate, ProcessDies, LockersStop, TypeOK, AccessTypeOK, CallFits, ChecksShow,
            Entitled, JobsArePaid, AccessIsEarned
    <2>5. QED
        BY <2>1, <2>2, <2>3, <2>4
<1>31. ASSUME NEW l \in Lockers, NEW m \in {"suspend", "restore"}, NEW a \in Agreements, DeskLock(l, m, a), UNCHANGED rentalVars
      PROVE  Remembered' /\ ChecksShow' /\ JobsArePaid' /\ AccessIsEarned'
    <2>1. Remembered'
        BY <1>0, <1>31 DEF DeskLock, StartLocker, rentalVars, TypeOK, Remembered
    <2>2. ChecksShow'
        BY <1>0, <1>31
        DEF DeskLock, StartLocker, rentalVars, TypeOK, CallFits, Remembered, ChecksShow, Entitled, AccessIsEarned
    <2>3. JobsArePaid'
        BY <1>0, <1>31 DEF DeskLock, StartLocker, rentalVars, TypeOK, CallFits, JobsArePaid
    <2>4. AccessIsEarned'
        BY <1>0, <1>31
        DEF DeskLock, StartLocker, rentalVars, TypeOK, AccessTypeOK, CallFits, ChecksShow, Entitled, JobsArePaid,
            AccessIsEarned
    <2>5. QED
        BY <2>1, <2>2, <2>3, <2>4
<1>32. ASSUME NEW l \in Lockers, NEW m \in {"suspend", "restore"}, NEW u \in Tenants, InvoiceEvent(l, m, u, Active), UNCHANGED rentalVars
      PROVE  Remembered' /\ ChecksShow' /\ JobsArePaid' /\ AccessIsEarned'
    <2>1. Remembered'
        BY <1>0, <1>32 DEF InvoiceEvent, StartLocker, Reach, Active, rentalVars, TypeOK, Remembered
    <2>2. ChecksShow'
        BY <1>0, <1>32
        DEF InvoiceEvent, StartLocker, Reach, Active, rentalVars, TypeOK, CallFits, Remembered, ChecksShow,
            Entitled, AccessIsEarned
    <2>3. JobsArePaid'
        BY <1>0, <1>32 DEF InvoiceEvent, StartLocker, Reach, Active, rentalVars, TypeOK, CallFits, JobsArePaid
    <2>4. AccessIsEarned'
        BY <1>0, <1>32
        DEF InvoiceEvent, StartLocker, Reach, Active, rentalVars, TypeOK, AccessTypeOK, CallFits, ChecksShow,
            Entitled, JobsArePaid, AccessIsEarned
    <2>5. QED
        BY <2>1, <2>2, <2>3, <2>4
<1>33. ASSUME NEW l \in Lockers, SkipRow(l), UNCHANGED rentalVars
      PROVE  Remembered' /\ ChecksShow' /\ JobsArePaid' /\ AccessIsEarned'
    <2>1. Remembered'
        BY <1>0, <1>33 DEF SkipRow, AfterRound, rentalVars, TypeOK, Remembered
    <2>2. ChecksShow'
        BY <1>0, <1>33
        DEF SkipRow, AfterRound, rentalVars, TypeOK, CallFits, Remembered, ChecksShow, Entitled, AccessIsEarned
    <2>3. JobsArePaid'
        BY <1>0, <1>33 DEF SkipRow, AfterRound, rentalVars, TypeOK, CallFits, JobsArePaid
    <2>4. AccessIsEarned'
        BY <1>0, <1>33
        DEF SkipRow, AfterRound, rentalVars, TypeOK, AccessTypeOK, CallFits, ChecksShow, Entitled, JobsArePaid,
            AccessIsEarned
    <2>5. QED
        BY <2>1, <2>2, <2>3, <2>4
<1>34. ASSUME NEW l \in Lockers, ReadRow(l), UNCHANGED rentalVars
      PROVE  Remembered' /\ ChecksShow' /\ JobsArePaid' /\ AccessIsEarned'
    <2>1. Remembered'
        BY <1>0, <1>34 DEF ReadRow, HasWork, Opposed, rentalVars, TypeOK, Remembered
    <2>2. ChecksShow'
        BY <1>0, <1>34
        DEF ReadRow, HasWork, Opposed, rentalVars, TypeOK, CallFits, Remembered, ChecksShow, Entitled,
            AccessIsEarned
    <2>3. JobsArePaid'
        BY <1>0, <1>34 DEF ReadRow, HasWork, Opposed, rentalVars, TypeOK, CallFits, JobsArePaid
    <2>4. AccessIsEarned'
        BY <1>0, <1>34
        DEF ReadRow, HasWork, Opposed, rentalVars, TypeOK, AccessTypeOK, CallFits, ChecksShow, Entitled,
            JobsArePaid, AccessIsEarned
    <2>5. QED
        BY <2>1, <2>2, <2>3, <2>4
<1>35. ASSUME NEW l \in Lockers, TellVendor(l), UNCHANGED rentalVars
      PROVE  Remembered' /\ ChecksShow' /\ JobsArePaid' /\ AccessIsEarned'
    <2>1. Remembered'
        BY <1>0, <1>35 DEF TellVendor, rentalVars, TypeOK, Remembered
    <2>2. ChecksShow'
        BY <1>0, <1>35
        DEF TellVendor, rentalVars, TypeOK, CallFits, Remembered, ChecksShow, Entitled, AccessIsEarned
    <2>3. JobsArePaid'
        BY <1>0, <1>35 DEF TellVendor, rentalVars, TypeOK, CallFits, JobsArePaid
    <2>4. AccessIsEarned'
        BY <1>0, <1>35
        DEF TellVendor, rentalVars, TypeOK, AccessTypeOK, CallFits, ChecksShow, Entitled, JobsArePaid,
            AccessIsEarned
    <2>5. QED
        BY <2>1, <2>2, <2>3, <2>4
<1>36. ASSUME NEW l \in Lockers, WriteRow(l), UNCHANGED rentalVars
      PROVE  Remembered' /\ ChecksShow' /\ JobsArePaid' /\ AccessIsEarned'
    <2>1. Remembered'
        BY <1>0, <1>36 DEF WriteRow, AfterRound, rentalVars, TypeOK, Remembered
    <2>2. ChecksShow'
        BY <1>0, <1>36
        DEF WriteRow, AfterRound, rentalVars, TypeOK, CallFits, Remembered, ChecksShow, Entitled, AccessIsEarned
    <2>3. JobsArePaid'
        BY <1>0, <1>36 DEF WriteRow, AfterRound, rentalVars, TypeOK, CallFits, JobsArePaid
    <2>4. AccessIsEarned'
        BY <1>0, <1>36
        DEF WriteRow, AfterRound, rentalVars, TypeOK, AccessTypeOK, CallFits, ChecksShow, Entitled, JobsArePaid,
            AccessIsEarned
    <2>5. QED
        BY <2>1, <2>2, <2>3, <2>4
<1>37. ASSUME NEW t \in PayCalls, PayStops(t)
      PROVE  Remembered' /\ ChecksShow' /\ JobsArePaid' /\ AccessIsEarned'
    <2>1. Remembered'
        BY <1>0, <1>37 DEF PayStops, TypeOK, Remembered
    <2>2. ChecksShow'
        BY <1>0, <1>37 DEF PayStops, TypeOK, CallFits, Remembered, ChecksShow, Entitled, AccessIsEarned
    <2>3. JobsArePaid'
        BY <1>0, <1>37 DEF PayStops, TypeOK, CallFits, JobsArePaid
    <2>4. AccessIsEarned'
        BY <1>0, <1>37
        DEF PayStops, TypeOK, AccessTypeOK, CallFits, ChecksShow, Entitled, JobsArePaid, AccessIsEarned
    <2>5. QED
        BY <2>1, <2>2, <2>3, <2>4
<1>38. ASSUME NEW a \in Agreements, Bill(a)
      PROVE  Remembered' /\ ChecksShow' /\ JobsArePaid' /\ AccessIsEarned'
    <2>1. Remembered'
        BY <1>0, <1>38 DEF Bill, TypeOK, Remembered
    <2>2. ChecksShow'
        BY <1>0, <1>38 DEF Bill, TypeOK, CallFits, Remembered, ChecksShow, Entitled, AccessIsEarned
    <2>3. JobsArePaid'
        BY <1>0, <1>38 DEF Bill, TypeOK, CallFits, JobsArePaid
    <2>4. AccessIsEarned'
        BY <1>0, <1>38
        DEF Bill, TypeOK, AccessTypeOK, CallFits, ChecksShow, Entitled, JobsArePaid, AccessIsEarned
    <2>5. QED
        BY <2>1, <2>2, <2>3, <2>4
<1>39. ASSUME NEW a \in Agreements, CloseQuietly(a)
      PROVE  Remembered' /\ ChecksShow' /\ JobsArePaid' /\ AccessIsEarned'
    <2>1. Remembered'
        BY <1>0, <1>39 DEF CloseQuietly, TypeOK, Remembered
    <2>2. ChecksShow'
        BY <1>0, <1>39 DEF CloseQuietly, TypeOK, CallFits, Remembered, ChecksShow, Entitled, AccessIsEarned
    <2>3. JobsArePaid'
        BY <1>0, <1>39 DEF CloseQuietly, TypeOK, CallFits, JobsArePaid
    <2>4. AccessIsEarned'
        BY <1>0, <1>39
        DEF CloseQuietly, TypeOK, AccessTypeOK, CallFits, ChecksShow, Entitled, JobsArePaid, AccessIsEarned
    <2>5. QED
        BY <2>1, <2>2, <2>3, <2>4
<1>40. ASSUME NEW l \in Lockers, LockerThrows(l)
      PROVE  Remembered' /\ ChecksShow' /\ JobsArePaid' /\ AccessIsEarned'
    <2>1. Remembered'
        BY <1>0, <1>40 DEF LockerThrows, ProcessDies, LockersStop, TypeOK, Remembered
    <2>2. ChecksShow'
        BY <1>0, <1>40
        DEF LockerThrows, ProcessDies, LockersStop, TypeOK, CallFits, Remembered, ChecksShow,
            Entitled, AccessIsEarned
    <2>3. JobsArePaid'
        BY <1>0, <1>40 DEF LockerThrows, ProcessDies, LockersStop, TypeOK, CallFits, JobsArePaid
    <2>4. AccessIsEarned'
        BY <1>0, <1>40
        DEF LockerThrows, ProcessDies, LockersStop, TypeOK, AccessTypeOK, CallFits, ChecksShow,
            Entitled, JobsArePaid, AccessIsEarned
    <2>5. QED
        BY <2>1, <2>2, <2>3, <2>4
<1>41. QED
    <2>1. CASE \E a \in Agreements : SendStatus(a) \/ SendRows(a) \/ DeskRelease(a) \/ Bill(a) \/ CloseQuietly(a)
        BY <2>1, <1>1, <1>2, <1>3, <1>38, <1>39
    <2>2. CASE \E t \in SignCalls : SignFind(t) \/ SignStep(t) \/ SignStops(t)
        BY <2>2, <1>4, <1>5, <1>6, <1>7, <1>8, <1>9 DEF SignStep
    <2>3. CASE \E t \in PayCalls : Pay(t) \/ PayQueue(t) \/ PayStops(t)
        BY <2>3, <1>10, <1>11, <1>37
    <2>4. CASE \E tenant \in Tenants : Grant(tenant) \/ Revoke(tenant)
        BY <2>4, <1>12, <1>13
    <2>5. CASE \E c \in Calls, t \in Jobs : TakeJob(c, t)
        BY <2>5, <1>14
    <2>6. CASE \E c \in Calls, k \in DOMAIN Entry, a \in Agreements : DeskCall(c, k, a)
        BY <2>6, <1>15
    <2>7. CASE \E c \in Calls : CallStep(c)
        BY <2>7, <1>16, <1>17, <1>18, <1>19, <1>20, <1>21, <1>22, <1>23, <1>24, <1>25, <1>26, <1>27 DEF CallStep
    <2>8. CASE \E c \in Calls : HandlerStep(c)
        BY <2>8, <1>28, <1>29, <1>30 DEF HandlerStep
    <2>9. CASE \E l \in Lockers : Lock(l)
        BY <2>9, <1>31, <1>32, <1>33, <1>34, <1>35, <1>36, TenantOfAssumption DEF Lock, LockerStep, rentalVars
    <2>10. CASE \E l \in Lockers : LockerThrows(l)
        BY <2>10, <1>40
    <2>11. QED
        BY <2>1, <2>2, <2>3, <2>4, <2>5, <2>6, <2>7, <2>8, <2>9, <2>10 DEF Next

-----------------------------------------------------------------------------
(***************************************************************************)
(* Of an active agreement without a row, whose activation was not cut      *)
(* short, somebody has still to tell, or has still to hear.                *)
(***************************************************************************)
SomeoneIssues ==
    \A a \in Agreements :
        status[a] = "active" /\ a \notin cut \cup imported /\ row[a] = "none" =>
            \E c \in Calls : (con[c] = a /\ cpc[c] = "emit") \/ hon[c] = a

IssueInv == FitInv /\ SomeoneIssues

(* Every step keeps that. *)
LEMMA NextIssues == IssueInv /\ Next => SomeoneIssues'
<1> SUFFICES ASSUME IssueInv, Next
             PROVE  SomeoneIssues'
    OBVIOUS
<1> USE AboutAssumption, NoAgreementAssumption, EntryFits
    DEF Happens, keyVars, lockerVars, lockHistory, doorVars, accessVars, paperVars, partyVars, signVars, jobVars,
        callVars, handlerVars, rentalHistory, Jobs
<1>0. FitInv /\ TypeOK /\ CallFits /\ SomeoneIssues
    BY DEF IssueInv, FitInv
<1>1. ASSUME NEW a \in Agreements, SendStatus(a)
      PROVE  SomeoneIssues'
    BY <1>0, <1>1 DEF SendStatus, TypeOK, AccessTypeOK, CallFits, SomeoneIssues
<1>2. ASSUME NEW a \in Agreements, SendRows(a)
      PROVE  SomeoneIssues'
    BY <1>0, <1>2 DEF SendRows, SetRows, TypeOK, AccessTypeOK, CallFits, SomeoneIssues
<1>3. ASSUME NEW a \in Agreements, DeskRelease(a)
      PROVE  SomeoneIssues'
    BY <1>0, <1>3 DEF DeskRelease, Release, TypeOK, AccessTypeOK, CallFits, SomeoneIssues
<1>4. ASSUME NEW t \in SignCalls, SignFind(t)
      PROVE  SomeoneIssues'
    BY <1>0, <1>4 DEF SignFind, TypeOK, AccessTypeOK, CallFits, SomeoneIssues
<1>5. ASSUME NEW t \in SignCalls, SignRow(t)
      PROVE  SomeoneIssues'
    BY <1>0, <1>5 DEF SignRow, SetRows, TypeOK, AccessTypeOK, CallFits, SomeoneIssues
<1>6. ASSUME NEW t \in SignCalls, SignCheck(t)
      PROVE  SomeoneIssues'
    BY <1>0, <1>6 DEF SignCheck, TypeOK, AccessTypeOK, CallFits, SomeoneIssues
<1>7. ASSUME NEW t \in SignCalls, SignWrite(t)
      PROVE  SomeoneIssues'
    BY <1>0, <1>7 DEF SignWrite, TypeOK, AccessTypeOK, CallFits, SomeoneIssues
<1>8. ASSUME NEW t \in SignCalls, SignQueue(t)
      PROVE  SomeoneIssues'
    BY <1>0, <1>8 DEF SignQueue, TypeOK, AccessTypeOK, CallFits, SomeoneIssues
<1>9. ASSUME NEW t \in SignCalls, SignStops(t)
      PROVE  SomeoneIssues'
    BY <1>0, <1>9 DEF SignStops, TypeOK, AccessTypeOK, CallFits, SomeoneIssues
<1>10. ASSUME NEW t \in PayCalls, Pay(t)
      PROVE  SomeoneIssues'
    BY <1>0, <1>10 DEF Pay, TypeOK, AccessTypeOK, CallFits, SomeoneIssues
<1>11. ASSUME NEW t \in PayCalls, PayQueue(t)
      PROVE  SomeoneIssues'
    BY <1>0, <1>11 DEF PayQueue, TypeOK, AccessTypeOK, CallFits, SomeoneIssues
<1>12. ASSUME NEW u \in Tenants, Grant(u)
      PROVE  SomeoneIssues'
    BY <1>0, <1>12 DEF Grant, TypeOK, AccessTypeOK, CallFits, SomeoneIssues
<1>13. ASSUME NEW u \in Tenants, Revoke(u)
      PROVE  SomeoneIssues'
    BY <1>0, <1>13 DEF Revoke, TypeOK, AccessTypeOK, CallFits, SomeoneIssues
<1>14. ASSUME NEW c \in Calls, NEW t \in Jobs, TakeJob(c, t)
      PROVE  SomeoneIssues'
    BY <1>0, <1>14 DEF TakeJob, TypeOK, AccessTypeOK, CallFits, SomeoneIssues
<1>15. ASSUME NEW c \in Calls, NEW k \in DOMAIN Entry, NEW a \in Agreements, DeskCall(c, k, a)
      PROVE  SomeoneIssues'
    BY <1>0, <1>15 DEF DeskCall, TypeOK, AccessTypeOK, CallFits, SomeoneIssues
<1>16. ASSUME NEW c \in Calls, Readiness(c)
      PROVE  SomeoneIssues'
    BY <1>0, <1>16
    DEF Readiness, CanActivate, Goto, Return, Leave, TypeOK, AccessTypeOK, CallFits, SomeoneIssues
<1>17. ASSUME NEW c \in Calls, Begin(c)
      PROVE  SomeoneIssues'
    BY <1>0, <1>17 DEF Begin, Goto, Throw, Leave, TypeOK, AccessTypeOK, CallFits, SomeoneIssues
<1>18. ASSUME NEW c \in Calls, CheckSignatures(c)
      PROVE  SomeoneIssues'
    BY <1>0, <1>18 DEF CheckSignatures, Goto, Throw, Leave, TypeOK, AccessTypeOK, CallFits, SomeoneIssues
<1>19. ASSUME NEW c \in Calls, CheckMandate(c)
      PROVE  SomeoneIssues'
    BY <1>0, <1>19 DEF CheckMandate, Goto, Throw, Leave, TypeOK, AccessTypeOK, CallFits, SomeoneIssues
<1>20. ASSUME NEW c \in Calls, Activate(c)
      PROVE  SomeoneIssues'
    BY <1>0, <1>20 DEF Activate, Goto, TypeOK, AccessTypeOK, CallFits, SomeoneIssues
<1>21. ASSUME NEW c \in Calls, CallThrows(c)
      PROVE  SomeoneIssues'
    BY <1>0, <1>21 DEF CallThrows, Throw, Leave, TypeOK, AccessTypeOK, CallFits, SomeoneIssues
<1>22. ASSUME NEW c \in Calls, Emit(c)
      PROVE  SomeoneIssues'
    BY <1>0, <1>22 DEF Emit, Goto, Return, Leave, TypeOK, AccessTypeOK, CallFits, SomeoneIssues
<1>23. ASSUME NEW c \in Calls, LookUp(c)
      PROVE  SomeoneIssues'
    BY <1>0, <1>23 DEF LookUp, Goto, TypeOK, AccessTypeOK, CallFits, SomeoneIssues
<1>24. ASSUME NEW c \in Calls, CallAsks(c)
      PROVE  SomeoneIssues'
    BY <1>0, <1>24 DEF CallAsks, Goto, TypeOK, AccessTypeOK, CallFits, SomeoneIssues
<1>25. ASSUME NEW c \in Calls, CallCreates(c)
      PROVE  SomeoneIssues'
    BY <1>0, <1>25
    DEF CallCreates, CanCreate, CreateRow, Goto, Return, Throw, Leave, TypeOK, AccessTypeOK, CallFits,
        SomeoneIssues
<1>26. ASSUME NEW c \in Calls, CallReleases(c)
      PROVE  SomeoneIssues'
    BY <1>0, <1>26 DEF CallReleases, Release, Goto, TypeOK, AccessTypeOK, CallFits, SomeoneIssues
<1>27. ASSUME NEW c \in Calls, Occupy(c)
      PROVE  SomeoneIssues'
    BY <1>0, <1>27 DEF Occupy, Return, Leave, TypeOK, AccessTypeOK, CallFits, SomeoneIssues
<1>28. ASSUME NEW c \in Calls, HandlerAsks(c)
      PROVE  SomeoneIssues'
    BY <1>0, <1>28 DEF HandlerAsks, TypeOK, AccessTypeOK, CallFits, SomeoneIssues
<1>29. ASSUME NEW c \in Calls, HandlerCreates(c)
      PROVE  SomeoneIssues'
    BY <1>0, <1>29 DEF HandlerCreates, CanCreate, CreateRow, TypeOK, AccessTypeOK, CallFits, SomeoneIssues
<1>30. ASSUME NEW c \in Calls, HandlerRejects(c)
      PROVE  SomeoneIssues'
    BY <1>0, <1>30
    DEF HandlerRejects, CanCreate, ProcessDies, LockersStop, TypeOK, AccessTypeOK, CallFits, SomeoneIssues
<1>31. ASSUME NEW l \in Lockers, NEW m \in {"suspend", "restore"}, NEW a \in Agreements, DeskLock(l, m, a), UNCHANGED rentalVars
      PROVE  SomeoneIssues'
    BY <1>0, <1>31 DEF DeskLock, StartLocker, rentalVars, TypeOK, AccessTypeOK, CallFits, SomeoneIssues
<1>32. ASSUME NEW l \in Lockers, NEW m \in {"suspend", "restore"}, NEW u \in Tenants, InvoiceEvent(l, m, u, Active), UNCHANGED rentalVars
      PROVE  SomeoneIssues'
    BY <1>0, <1>32
    DEF InvoiceEvent, StartLocker, Reach, Active, rentalVars, TypeOK, AccessTypeOK, CallFits, SomeoneIssues
<1>33. ASSUME NEW l \in Lockers, SkipRow(l), UNCHANGED rentalVars
      PROVE  SomeoneIssues'
    BY <1>0, <1>33 DEF SkipRow, AfterRound, rentalVars, TypeOK, AccessTypeOK, CallFits, SomeoneIssues
<1>34. ASSUME NEW l \in Lockers, ReadRow(l), UNCHANGED rentalVars
      PROVE  SomeoneIssues'
    BY <1>0, <1>34 DEF ReadRow, HasWork, Opposed, rentalVars, TypeOK, AccessTypeOK, CallFits, SomeoneIssues
<1>35. ASSUME NEW l \in Lockers, TellVendor(l), UNCHANGED rentalVars
      PROVE  SomeoneIssues'
    BY <1>0, <1>35 DEF TellVendor, rentalVars, TypeOK, AccessTypeOK, CallFits, SomeoneIssues
<1>36. ASSUME NEW l \in Lockers, WriteRow(l), UNCHANGED rentalVars
      PROVE  SomeoneIssues'
    BY <1>0, <1>36 DEF WriteRow, AfterRound, rentalVars, TypeOK, AccessTypeOK, CallFits, SomeoneIssues
<1>37. ASSUME NEW t \in PayCalls, PayStops(t)
      PROVE  SomeoneIssues'
    BY <1>0, <1>37 DEF PayStops, TypeOK, AccessTypeOK, CallFits, SomeoneIssues
<1>38. ASSUME NEW a \in Agreements, Bill(a)
      PROVE  SomeoneIssues'
    BY <1>0, <1>38 DEF Bill, TypeOK, AccessTypeOK, CallFits, SomeoneIssues
<1>39. ASSUME NEW a \in Agreements, CloseQuietly(a)
      PROVE  SomeoneIssues'
    BY <1>0, <1>39 DEF CloseQuietly, TypeOK, AccessTypeOK, CallFits, SomeoneIssues
<1>40. ASSUME NEW l \in Lockers, LockerThrows(l)
      PROVE  SomeoneIssues'
    BY <1>0, <1>40
    DEF LockerThrows, ProcessDies, LockersStop, TypeOK, AccessTypeOK, CallFits, SomeoneIssues
<1>41. QED
    <2>1. CASE \E a \in Agreements : SendStatus(a) \/ SendRows(a) \/ DeskRelease(a) \/ Bill(a) \/ CloseQuietly(a)
        BY <2>1, <1>1, <1>2, <1>3, <1>38, <1>39
    <2>2. CASE \E t \in SignCalls : SignFind(t) \/ SignStep(t) \/ SignStops(t)
        BY <2>2, <1>4, <1>5, <1>6, <1>7, <1>8, <1>9 DEF SignStep
    <2>3. CASE \E t \in PayCalls : Pay(t) \/ PayQueue(t) \/ PayStops(t)
        BY <2>3, <1>10, <1>11, <1>37
    <2>4. CASE \E tenant \in Tenants : Grant(tenant) \/ Revoke(tenant)
        BY <2>4, <1>12, <1>13
    <2>5. CASE \E c \in Calls, t \in Jobs : TakeJob(c, t)
        BY <2>5, <1>14
    <2>6. CASE \E c \in Calls, k \in DOMAIN Entry, a \in Agreements : DeskCall(c, k, a)
        BY <2>6, <1>15
    <2>7. CASE \E c \in Calls : CallStep(c)
        BY <2>7, <1>16, <1>17, <1>18, <1>19, <1>20, <1>21, <1>22, <1>23, <1>24, <1>25, <1>26, <1>27 DEF CallStep
    <2>8. CASE \E c \in Calls : HandlerStep(c)
        BY <2>8, <1>28, <1>29, <1>30 DEF HandlerStep
    <2>9. CASE \E l \in Lockers : Lock(l)
        BY <2>9, <1>31, <1>32, <1>33, <1>34, <1>35, <1>36, TenantOfAssumption DEF Lock, LockerStep, rentalVars
    <2>10. CASE \E l \in Lockers : LockerThrows(l)
        BY <2>10, <1>40
    <2>11. QED
        BY <2>1, <2>2, <2>3, <2>4, <2>5, <2>6, <2>7, <2>8, <2>9, <2>10 DEF Next

-----------------------------------------------------------------------------
(***************************************************************************)
(* Lockers of one row do the same unless they clashed; the row and the key *)
(* differ only while one of them has told the vendor and not the row.      *)
(***************************************************************************)
KeysGoWithRows == \A a \in Agreements : row[a] = "none" <=> lock[a] = "none"

SameMode ==
    \A l, k \in Lockers : lon[l] \in Agreements \ clashed /\ lon[k] = lon[l] => mode[k] = mode[l]

Told == \A l \in Lockers :
            lpc[l] = "write" /\ lon[l] \notin clashed =>
                lock[lon[l]] = IF mode[l] = "suspend" THEN "shut" ELSE "open"

Writes(a, m) == \E l \in Lockers : lon[l] = a /\ lpc[l] = "write" /\ mode[l] = m

Owed ==
    \A a \in Agreements \ (clashed \cup torn) :
        /\ row[a] = "suspended" /\ lock[a] # "shut" => Writes(a, "restore")
        /\ row[a] = "active" /\ lock[a] # "open" => Writes(a, "suspend")

LockInv == FitInv /\ KeysGoWithRows /\ SameMode /\ Told /\ Owed
DoorInv == KeysGoWithRows /\ SameMode /\ Told /\ Owed

(* Every step keeps that. *)
LEMMA NextLocks == LockInv /\ Next => DoorInv'
<1> SUFFICES ASSUME LockInv, Next
             PROVE  DoorInv'
    OBVIOUS
<1> USE AboutAssumption, NoAgreementAssumption, EntryFits
    DEF Happens, keyVars, lockerVars, lockHistory, doorVars, accessVars, paperVars, partyVars, signVars, jobVars,
        callVars, handlerVars, rentalHistory, Jobs
<1>0. FitInv /\ TypeOK /\ LockerFits /\ KeysGoWithRows /\ SameMode /\ Told /\ Owed
    BY DEF LockInv, FitInv
<1>1. ASSUME NEW a \in Agreements, SendStatus(a)
      PROVE  DoorInv'
    <2>1. KeysGoWithRows'
        BY <1>0, <1>1 DEF SendStatus, TypeOK, AccessTypeOK, LockerFits, KeysGoWithRows
    <2>2. SameMode'
        BY <1>0, <1>1 DEF SendStatus, TypeOK, AccessTypeOK, LockerFits, SameMode
    <2>3. Told'
        BY <1>0, <1>1 DEF SendStatus, TypeOK, AccessTypeOK, LockerFits, SameMode, Told
    <2>4. Owed'
        BY <1>0, <1>1 DEF SendStatus, TypeOK, AccessTypeOK, LockerFits, SameMode, Told, Owed, Writes
    <2>5. QED
        BY <2>1, <2>2, <2>3, <2>4 DEF DoorInv
<1>2. ASSUME NEW a \in Agreements, SendRows(a)
      PROVE  DoorInv'
    <2>1. KeysGoWithRows'
        BY <1>0, <1>2 DEF SendRows, SetRows, TypeOK, AccessTypeOK, LockerFits, KeysGoWithRows
    <2>2. SameMode'
        BY <1>0, <1>2 DEF SendRows, SetRows, TypeOK, AccessTypeOK, LockerFits, SameMode
    <2>3. Told'
        BY <1>0, <1>2 DEF SendRows, SetRows, TypeOK, AccessTypeOK, LockerFits, SameMode, Told
    <2>4. Owed'
        BY <1>0, <1>2 DEF SendRows, SetRows, TypeOK, AccessTypeOK, LockerFits, SameMode, Told, Owed, Writes
    <2>5. QED
        BY <2>1, <2>2, <2>3, <2>4 DEF DoorInv
<1>3. ASSUME NEW a \in Agreements, DeskRelease(a)
      PROVE  DoorInv'
    <2>1. KeysGoWithRows'
        BY <1>0, <1>3 DEF DeskRelease, Release, TypeOK, AccessTypeOK, LockerFits, KeysGoWithRows
    <2>2. SameMode'
        BY <1>0, <1>3 DEF DeskRelease, Release, TypeOK, AccessTypeOK, LockerFits, SameMode
    <2>3. Told'
        BY <1>0, <1>3 DEF DeskRelease, Release, TypeOK, AccessTypeOK, LockerFits, SameMode, Told
    <2>4. Owed'
        BY <1>0, <1>3 DEF DeskRelease, Release, TypeOK, AccessTypeOK, LockerFits, SameMode, Told, Owed, Writes
    <2>5. QED
        BY <2>1, <2>2, <2>3, <2>4 DEF DoorInv
<1>4. ASSUME NEW t \in SignCalls, SignFind(t)
      PROVE  DoorInv'
    <2>1. KeysGoWithRows'
        BY <1>0, <1>4 DEF SignFind, TypeOK, AccessTypeOK, LockerFits, KeysGoWithRows
    <2>2. SameMode'
        BY <1>0, <1>4 DEF SignFind, TypeOK, AccessTypeOK, LockerFits, SameMode
    <2>3. Told'
        BY <1>0, <1>4 DEF SignFind, TypeOK, AccessTypeOK, LockerFits, SameMode, Told
    <2>4. Owed'
        BY <1>0, <1>4 DEF SignFind, TypeOK, AccessTypeOK, LockerFits, SameMode, Told, Owed, Writes
    <2>5. QED
        BY <2>1, <2>2, <2>3, <2>4 DEF DoorInv
<1>5. ASSUME NEW t \in SignCalls, SignRow(t)
      PROVE  DoorInv'
    <2>1. KeysGoWithRows'
        BY <1>0, <1>5 DEF SignRow, SetRows, TypeOK, AccessTypeOK, LockerFits, KeysGoWithRows
    <2>2. SameMode'
        BY <1>0, <1>5 DEF SignRow, SetRows, TypeOK, AccessTypeOK, LockerFits, SameMode
    <2>3. Told'
        BY <1>0, <1>5 DEF SignRow, SetRows, TypeOK, AccessTypeOK, LockerFits, SameMode, Told
    <2>4. Owed'
        BY <1>0, <1>5 DEF SignRow, SetRows, TypeOK, AccessTypeOK, LockerFits, SameMode, Told, Owed, Writes
    <2>5. QED
        BY <2>1, <2>2, <2>3, <2>4 DEF DoorInv
<1>6. ASSUME NEW t \in SignCalls, SignCheck(t)
      PROVE  DoorInv'
    <2>1. KeysGoWithRows'
        BY <1>0, <1>6 DEF SignCheck, TypeOK, AccessTypeOK, LockerFits, KeysGoWithRows
    <2>2. SameMode'
        BY <1>0, <1>6 DEF SignCheck, TypeOK, AccessTypeOK, LockerFits, SameMode
    <2>3. Told'
        BY <1>0, <1>6 DEF SignCheck, TypeOK, AccessTypeOK, LockerFits, SameMode, Told
    <2>4. Owed'
        BY <1>0, <1>6 DEF SignCheck, TypeOK, AccessTypeOK, LockerFits, SameMode, Told, Owed, Writes
    <2>5. QED
        BY <2>1, <2>2, <2>3, <2>4 DEF DoorInv
<1>7. ASSUME NEW t \in SignCalls, SignWrite(t)
      PROVE  DoorInv'
    <2>1. KeysGoWithRows'
        BY <1>0, <1>7 DEF SignWrite, TypeOK, AccessTypeOK, LockerFits, KeysGoWithRows
    <2>2. SameMode'
        BY <1>0, <1>7 DEF SignWrite, TypeOK, AccessTypeOK, LockerFits, SameMode
    <2>3. Told'
        BY <1>0, <1>7 DEF SignWrite, TypeOK, AccessTypeOK, LockerFits, SameMode, Told
    <2>4. Owed'
        BY <1>0, <1>7 DEF SignWrite, TypeOK, AccessTypeOK, LockerFits, SameMode, Told, Owed, Writes
    <2>5. QED
        BY <2>1, <2>2, <2>3, <2>4 DEF DoorInv
<1>8. ASSUME NEW t \in SignCalls, SignQueue(t)
      PROVE  DoorInv'
    <2>1. KeysGoWithRows'
        BY <1>0, <1>8 DEF SignQueue, TypeOK, AccessTypeOK, LockerFits, KeysGoWithRows
    <2>2. SameMode'
        BY <1>0, <1>8 DEF SignQueue, TypeOK, AccessTypeOK, LockerFits, SameMode
    <2>3. Told'
        BY <1>0, <1>8 DEF SignQueue, TypeOK, AccessTypeOK, LockerFits, SameMode, Told
    <2>4. Owed'
        BY <1>0, <1>8 DEF SignQueue, TypeOK, AccessTypeOK, LockerFits, SameMode, Told, Owed, Writes
    <2>5. QED
        BY <2>1, <2>2, <2>3, <2>4 DEF DoorInv
<1>9. ASSUME NEW t \in SignCalls, SignStops(t)
      PROVE  DoorInv'
    <2>1. KeysGoWithRows'
        BY <1>0, <1>9 DEF SignStops, TypeOK, AccessTypeOK, LockerFits, KeysGoWithRows
    <2>2. SameMode'
        BY <1>0, <1>9 DEF SignStops, TypeOK, AccessTypeOK, LockerFits, SameMode
    <2>3. Told'
        BY <1>0, <1>9 DEF SignStops, TypeOK, AccessTypeOK, LockerFits, SameMode, Told
    <2>4. Owed'
        BY <1>0, <1>9 DEF SignStops, TypeOK, AccessTypeOK, LockerFits, SameMode, Told, Owed, Writes
    <2>5. QED
        BY <2>1, <2>2, <2>3, <2>4 DEF DoorInv
<1>10. ASSUME NEW t \in PayCalls, Pay(t)
      PROVE  DoorInv'
    <2>1. KeysGoWithRows'
        BY <1>0, <1>10 DEF Pay, TypeOK, AccessTypeOK, LockerFits, KeysGoWithRows
    <2>2. SameMode'
        BY <1>0, <1>10 DEF Pay, TypeOK, AccessTypeOK, LockerFits, SameMode
    <2>3. Told'
        BY <1>0, <1>10 DEF Pay, TypeOK, AccessTypeOK, LockerFits, SameMode, Told
    <2>4. Owed'
        BY <1>0, <1>10 DEF Pay, TypeOK, AccessTypeOK, LockerFits, SameMode, Told, Owed, Writes
    <2>5. QED
        BY <2>1, <2>2, <2>3, <2>4 DEF DoorInv
<1>11. ASSUME NEW t \in PayCalls, PayQueue(t)
      PROVE  DoorInv'
    <2>1. KeysGoWithRows'
        BY <1>0, <1>11 DEF PayQueue, TypeOK, AccessTypeOK, LockerFits, KeysGoWithRows
    <2>2. SameMode'
        BY <1>0, <1>11 DEF PayQueue, TypeOK, AccessTypeOK, LockerFits, SameMode
    <2>3. Told'
        BY <1>0, <1>11 DEF PayQueue, TypeOK, AccessTypeOK, LockerFits, SameMode, Told
    <2>4. Owed'
        BY <1>0, <1>11 DEF PayQueue, TypeOK, AccessTypeOK, LockerFits, SameMode, Told, Owed, Writes
    <2>5. QED
        BY <2>1, <2>2, <2>3, <2>4 DEF DoorInv
<1>12. ASSUME NEW u \in Tenants, Grant(u)
      PROVE  DoorInv'
    <2>1. KeysGoWithRows'
        BY <1>0, <1>12 DEF Grant, TypeOK, AccessTypeOK, LockerFits, KeysGoWithRows
    <2>2. SameMode'
        BY <1>0, <1>12 DEF Grant, TypeOK, AccessTypeOK, LockerFits, SameMode
    <2>3. Told'
        BY <1>0, <1>12 DEF Grant, TypeOK, AccessTypeOK, LockerFits, SameMode, Told
    <2>4. Owed'
        BY <1>0, <1>12 DEF Grant, TypeOK, AccessTypeOK, LockerFits, SameMode, Told, Owed, Writes
    <2>5. QED
        BY <2>1, <2>2, <2>3, <2>4 DEF DoorInv
<1>13. ASSUME NEW u \in Tenants, Revoke(u)
      PROVE  DoorInv'
    <2>1. KeysGoWithRows'
        BY <1>0, <1>13 DEF Revoke, TypeOK, AccessTypeOK, LockerFits, KeysGoWithRows
    <2>2. SameMode'
        BY <1>0, <1>13 DEF Revoke, TypeOK, AccessTypeOK, LockerFits, SameMode
    <2>3. Told'
        BY <1>0, <1>13 DEF Revoke, TypeOK, AccessTypeOK, LockerFits, SameMode, Told
    <2>4. Owed'
        BY <1>0, <1>13 DEF Revoke, TypeOK, AccessTypeOK, LockerFits, SameMode, Told, Owed, Writes
    <2>5. QED
        BY <2>1, <2>2, <2>3, <2>4 DEF DoorInv
<1>14. ASSUME NEW c \in Calls, NEW t \in Jobs, TakeJob(c, t)
      PROVE  DoorInv'
    <2>1. KeysGoWithRows'
        BY <1>0, <1>14 DEF TakeJob, TypeOK, AccessTypeOK, LockerFits, KeysGoWithRows
    <2>2. SameMode'
        BY <1>0, <1>14 DEF TakeJob, TypeOK, AccessTypeOK, LockerFits, SameMode
    <2>3. Told'
        BY <1>0, <1>14 DEF TakeJob, TypeOK, AccessTypeOK, LockerFits, SameMode, Told
    <2>4. Owed'
        BY <1>0, <1>14 DEF TakeJob, TypeOK, AccessTypeOK, LockerFits, SameMode, Told, Owed, Writes
    <2>5. QED
        BY <2>1, <2>2, <2>3, <2>4 DEF DoorInv
<1>15. ASSUME NEW c \in Calls, NEW k \in DOMAIN Entry, NEW a \in Agreements, DeskCall(c, k, a)
      PROVE  DoorInv'
    <2>1. KeysGoWithRows'
        BY <1>0, <1>15 DEF DeskCall, TypeOK, AccessTypeOK, LockerFits, KeysGoWithRows
    <2>2. SameMode'
        BY <1>0, <1>15 DEF DeskCall, TypeOK, AccessTypeOK, LockerFits, SameMode
    <2>3. Told'
        BY <1>0, <1>15 DEF DeskCall, TypeOK, AccessTypeOK, LockerFits, SameMode, Told
    <2>4. Owed'
        BY <1>0, <1>15 DEF DeskCall, TypeOK, AccessTypeOK, LockerFits, SameMode, Told, Owed, Writes
    <2>5. QED
        BY <2>1, <2>2, <2>3, <2>4 DEF DoorInv
<1>16. ASSUME NEW c \in Calls, Readiness(c)
      PROVE  DoorInv'
    <2>1. KeysGoWithRows'
        BY <1>0, <1>16
        DEF Readiness, CanActivate, Goto, Return, Leave, TypeOK, AccessTypeOK, LockerFits, KeysGoWithRows
    <2>2. SameMode'
        BY <1>0, <1>16
        DEF Readiness, CanActivate, Goto, Return, Leave, TypeOK, AccessTypeOK, LockerFits, SameMode
    <2>3. Told'
        BY <1>0, <1>16
        DEF Readiness, CanActivate, Goto, Return, Leave, TypeOK, AccessTypeOK, LockerFits, SameMode, Told
    <2>4. Owed'
        BY <1>0, <1>16
        DEF Readiness, CanActivate, Goto, Return, Leave, TypeOK, AccessTypeOK, LockerFits, SameMode, Told,
            Owed, Writes
    <2>5. QED
        BY <2>1, <2>2, <2>3, <2>4 DEF DoorInv
<1>17. ASSUME NEW c \in Calls, Begin(c)
      PROVE  DoorInv'
    <2>1. KeysGoWithRows'
        BY <1>0, <1>17 DEF Begin, Goto, Throw, Leave, TypeOK, AccessTypeOK, LockerFits, KeysGoWithRows
    <2>2. SameMode'
        BY <1>0, <1>17 DEF Begin, Goto, Throw, Leave, TypeOK, AccessTypeOK, LockerFits, SameMode
    <2>3. Told'
        BY <1>0, <1>17 DEF Begin, Goto, Throw, Leave, TypeOK, AccessTypeOK, LockerFits, SameMode, Told
    <2>4. Owed'
        BY <1>0, <1>17
        DEF Begin, Goto, Throw, Leave, TypeOK, AccessTypeOK, LockerFits, SameMode, Told, Owed, Writes
    <2>5. QED
        BY <2>1, <2>2, <2>3, <2>4 DEF DoorInv
<1>18. ASSUME NEW c \in Calls, CheckSignatures(c)
      PROVE  DoorInv'
    <2>1. KeysGoWithRows'
        BY <1>0, <1>18 DEF CheckSignatures, Goto, Throw, Leave, TypeOK, AccessTypeOK, LockerFits, KeysGoWithRows
    <2>2. SameMode'
        BY <1>0, <1>18 DEF CheckSignatures, Goto, Throw, Leave, TypeOK, AccessTypeOK, LockerFits, SameMode
    <2>3. Told'
        BY <1>0, <1>18 DEF CheckSignatures, Goto, Throw, Leave, TypeOK, AccessTypeOK, LockerFits, SameMode, Told
    <2>4. Owed'
        BY <1>0, <1>18
        DEF CheckSignatures, Goto, Throw, Leave, TypeOK, AccessTypeOK, LockerFits, SameMode, Told, Owed, Writes
    <2>5. QED
        BY <2>1, <2>2, <2>3, <2>4 DEF DoorInv
<1>19. ASSUME NEW c \in Calls, CheckMandate(c)
      PROVE  DoorInv'
    <2>1. KeysGoWithRows'
        BY <1>0, <1>19 DEF CheckMandate, Goto, Throw, Leave, TypeOK, AccessTypeOK, LockerFits, KeysGoWithRows
    <2>2. SameMode'
        BY <1>0, <1>19 DEF CheckMandate, Goto, Throw, Leave, TypeOK, AccessTypeOK, LockerFits, SameMode
    <2>3. Told'
        BY <1>0, <1>19 DEF CheckMandate, Goto, Throw, Leave, TypeOK, AccessTypeOK, LockerFits, SameMode, Told
    <2>4. Owed'
        BY <1>0, <1>19
        DEF CheckMandate, Goto, Throw, Leave, TypeOK, AccessTypeOK, LockerFits, SameMode, Told, Owed, Writes
    <2>5. QED
        BY <2>1, <2>2, <2>3, <2>4 DEF DoorInv
<1>20. ASSUME NEW c \in Calls, Activate(c)
      PROVE  DoorInv'
    <2>1. KeysGoWithRows'
        BY <1>0, <1>20 DEF Activate, Goto, TypeOK, AccessTypeOK, LockerFits, KeysGoWithRows
    <2>2. SameMode'
        BY <1>0, <1>20 DEF Activate, Goto, TypeOK, AccessTypeOK, LockerFits, SameMode
    <2>3. Told'
        BY <1>0, <1>20 DEF Activate, Goto, TypeOK, AccessTypeOK, LockerFits, SameMode, Told
    <2>4. Owed'
        BY <1>0, <1>20 DEF Activate, Goto, TypeOK, AccessTypeOK, LockerFits, SameMode, Told, Owed, Writes
    <2>5. QED
        BY <2>1, <2>2, <2>3, <2>4 DEF DoorInv
<1>21. ASSUME NEW c \in Calls, CallThrows(c)
      PROVE  DoorInv'
    <2>1. KeysGoWithRows'
        BY <1>0, <1>21 DEF CallThrows, Throw, Leave, TypeOK, AccessTypeOK, LockerFits, KeysGoWithRows
    <2>2. SameMode'
        BY <1>0, <1>21 DEF CallThrows, Throw, Leave, TypeOK, AccessTypeOK, LockerFits, SameMode
    <2>3. Told'
        BY <1>0, <1>21 DEF CallThrows, Throw, Leave, TypeOK, AccessTypeOK, LockerFits, SameMode, Told
    <2>4. Owed'
        BY <1>0, <1>21
        DEF CallThrows, Throw, Leave, TypeOK, AccessTypeOK, LockerFits, SameMode, Told, Owed, Writes
    <2>5. QED
        BY <2>1, <2>2, <2>3, <2>4 DEF DoorInv
<1>22. ASSUME NEW c \in Calls, Emit(c)
      PROVE  DoorInv'
    <2>1. KeysGoWithRows'
        BY <1>0, <1>22 DEF Emit, Goto, Return, Leave, TypeOK, AccessTypeOK, LockerFits, KeysGoWithRows
    <2>2. SameMode'
        BY <1>0, <1>22 DEF Emit, Goto, Return, Leave, TypeOK, AccessTypeOK, LockerFits, SameMode
    <2>3. Told'
        BY <1>0, <1>22 DEF Emit, Goto, Return, Leave, TypeOK, AccessTypeOK, LockerFits, SameMode, Told
    <2>4. Owed'
        BY <1>0, <1>22
        DEF Emit, Goto, Return, Leave, TypeOK, AccessTypeOK, LockerFits, SameMode, Told, Owed, Writes
    <2>5. QED
        BY <2>1, <2>2, <2>3, <2>4 DEF DoorInv
<1>23. ASSUME NEW c \in Calls, LookUp(c)
      PROVE  DoorInv'
    <2>1. KeysGoWithRows'
        BY <1>0, <1>23 DEF LookUp, Goto, TypeOK, AccessTypeOK, LockerFits, KeysGoWithRows
    <2>2. SameMode'
        BY <1>0, <1>23 DEF LookUp, Goto, TypeOK, AccessTypeOK, LockerFits, SameMode
    <2>3. Told'
        BY <1>0, <1>23 DEF LookUp, Goto, TypeOK, AccessTypeOK, LockerFits, SameMode, Told
    <2>4. Owed'
        BY <1>0, <1>23 DEF LookUp, Goto, TypeOK, AccessTypeOK, LockerFits, SameMode, Told, Owed, Writes
    <2>5. QED
        BY <2>1, <2>2, <2>3, <2>4 DEF DoorInv
<1>24. ASSUME NEW c \in Calls, CallAsks(c)
      PROVE  DoorInv'
    <2>1. KeysGoWithRows'
        BY <1>0, <1>24 DEF CallAsks, Goto, TypeOK, AccessTypeOK, LockerFits, KeysGoWithRows
    <2>2. SameMode'
        BY <1>0, <1>24 DEF CallAsks, Goto, TypeOK, AccessTypeOK, LockerFits, SameMode
    <2>3. Told'
        BY <1>0, <1>24 DEF CallAsks, Goto, TypeOK, AccessTypeOK, LockerFits, SameMode, Told
    <2>4. Owed'
        BY <1>0, <1>24 DEF CallAsks, Goto, TypeOK, AccessTypeOK, LockerFits, SameMode, Told, Owed, Writes
    <2>5. QED
        BY <2>1, <2>2, <2>3, <2>4 DEF DoorInv
<1>25. ASSUME NEW c \in Calls, CallCreates(c)
      PROVE  DoorInv'
    <2>1. KeysGoWithRows'
        BY <1>0, <1>25
        DEF CallCreates, CanCreate, CreateRow, Goto, Return, Throw, Leave, TypeOK, AccessTypeOK, LockerFits,
            KeysGoWithRows
    <2>2. SameMode'
        BY <1>0, <1>25
        DEF CallCreates, CanCreate, CreateRow, Goto, Return, Throw, Leave, TypeOK, AccessTypeOK, LockerFits,
            SameMode
    <2>3. Told'
        BY <1>0, <1>25
        DEF CallCreates, CanCreate, CreateRow, Goto, Return, Throw, Leave, TypeOK, AccessTypeOK, LockerFits,
            SameMode, Told
    <2>4. Owed'
        <3>1. CASE CanCreate(con[c])
            BY <1>0, <1>25, <3>1
            DEF CallCreates, CanCreate, CreateRow, TypeOK, AccessTypeOK, LockerFits, Told, Owed, Writes
        <3>2. CASE ~CanCreate(con[c])
            BY <1>0, <1>25, <3>2 DEF CallCreates, TypeOK, AccessTypeOK, LockerFits, Told, Owed, Writes
        <3>3. QED
            BY <3>1, <3>2
    <2>5. QED
        BY <2>1, <2>2, <2>3, <2>4 DEF DoorInv
<1>26. ASSUME NEW c \in Calls, CallReleases(c)
      PROVE  DoorInv'
    <2>1. KeysGoWithRows'
        BY <1>0, <1>26 DEF CallReleases, Release, Goto, TypeOK, AccessTypeOK, LockerFits, KeysGoWithRows
    <2>2. SameMode'
        BY <1>0, <1>26 DEF CallReleases, Release, Goto, TypeOK, AccessTypeOK, LockerFits, SameMode
    <2>3. Told'
        BY <1>0, <1>26 DEF CallReleases, Release, Goto, TypeOK, AccessTypeOK, LockerFits, SameMode, Told
    <2>4. Owed'
        BY <1>0, <1>26
        DEF CallReleases, Release, Goto, TypeOK, AccessTypeOK, LockerFits, SameMode, Told, Owed, Writes
    <2>5. QED
        BY <2>1, <2>2, <2>3, <2>4 DEF DoorInv
<1>27. ASSUME NEW c \in Calls, Occupy(c)
      PROVE  DoorInv'
    <2>1. KeysGoWithRows'
        BY <1>0, <1>27 DEF Occupy, Return, Leave, TypeOK, AccessTypeOK, LockerFits, KeysGoWithRows
    <2>2. SameMode'
        BY <1>0, <1>27 DEF Occupy, Return, Leave, TypeOK, AccessTypeOK, LockerFits, SameMode
    <2>3. Told'
        BY <1>0, <1>27 DEF Occupy, Return, Leave, TypeOK, AccessTypeOK, LockerFits, SameMode, Told
    <2>4. Owed'
        BY <1>0, <1>27 DEF Occupy, Return, Leave, TypeOK, AccessTypeOK, LockerFits, SameMode, Told, Owed, Writes
    <2>5. QED
        BY <2>1, <2>2, <2>3, <2>4 DEF DoorInv
<1>28. ASSUME NEW c \in Calls, HandlerAsks(c)
      PROVE  DoorInv'
    <2>1. KeysGoWithRows'
        BY <1>0, <1>28 DEF HandlerAsks, TypeOK, AccessTypeOK, LockerFits, KeysGoWithRows
    <2>2. SameMode'
        BY <1>0, <1>28 DEF HandlerAsks, TypeOK, AccessTypeOK, LockerFits, SameMode
    <2>3. Told'
        BY <1>0, <1>28 DEF HandlerAsks, TypeOK, AccessTypeOK, LockerFits, SameMode, Told
    <2>4. Owed'
        BY <1>0, <1>28 DEF HandlerAsks, TypeOK, AccessTypeOK, LockerFits, SameMode, Told, Owed, Writes
    <2>5. QED
        BY <2>1, <2>2, <2>3, <2>4 DEF DoorInv
<1>29. ASSUME NEW c \in Calls, HandlerCreates(c)
      PROVE  DoorInv'
    <2>1. KeysGoWithRows'
        BY <1>0, <1>29
        DEF HandlerCreates, CanCreate, CreateRow, TypeOK, AccessTypeOK, LockerFits, KeysGoWithRows
    <2>2. SameMode'
        BY <1>0, <1>29 DEF HandlerCreates, CanCreate, CreateRow, TypeOK, AccessTypeOK, LockerFits, SameMode
    <2>3. Told'
        BY <1>0, <1>29
        DEF HandlerCreates, CanCreate, CreateRow, TypeOK, AccessTypeOK, LockerFits, SameMode, Told
    <2>4. Owed'
        BY <1>0, <1>29
        DEF HandlerCreates, CanCreate, CreateRow, TypeOK, AccessTypeOK, LockerFits, SameMode, Told, Owed,
            Writes
    <2>5. QED
        BY <2>1, <2>2, <2>3, <2>4 DEF DoorInv
<1>30. ASSUME NEW c \in Calls, HandlerRejects(c)
      PROVE  DoorInv'
    <2>1. KeysGoWithRows'
        BY <1>0, <1>30
        DEF HandlerRejects, CanCreate, ProcessDies, LockersStop, TypeOK, AccessTypeOK, LockerFits,
            KeysGoWithRows
    <2>2. SameMode'
        BY <1>0, <1>30
        DEF HandlerRejects, CanCreate, ProcessDies, LockersStop, TypeOK, AccessTypeOK, LockerFits, SameMode
    <2>3. Told'
        BY <1>0, <1>30
        DEF HandlerRejects, CanCreate, ProcessDies, LockersStop, TypeOK, AccessTypeOK, LockerFits, SameMode,
            Told
    <2>4. Owed'
        BY <1>0, <1>30
        DEF HandlerRejects, CanCreate, ProcessDies, LockersStop, TypeOK, AccessTypeOK, LockerFits, SameMode,
            Told, Owed, Writes
    <2>5. QED
        BY <2>1, <2>2, <2>3, <2>4 DEF DoorInv
<1>31. ASSUME NEW l \in Lockers, NEW m \in {"suspend", "restore"}, NEW a \in Agreements, DeskLock(l, m, a), UNCHANGED rentalVars
      PROVE  DoorInv'
    <2>1. KeysGoWithRows'
        BY <1>0, <1>31 DEF DeskLock, StartLocker, rentalVars, TypeOK, AccessTypeOK, LockerFits, KeysGoWithRows
    <2>2. SameMode'
        BY <1>0, <1>31 DEF DeskLock, StartLocker, rentalVars, TypeOK, AccessTypeOK, LockerFits, SameMode
    <2>3. Told'
        BY <1>0, <1>31 DEF DeskLock, StartLocker, rentalVars, TypeOK, AccessTypeOK, LockerFits, SameMode, Told
    <2>4. Owed'
        BY <1>0, <1>31
        DEF DeskLock, StartLocker, rentalVars, TypeOK, AccessTypeOK, LockerFits, SameMode, Told, Owed, Writes
    <2>5. QED
        BY <2>1, <2>2, <2>3, <2>4 DEF DoorInv
<1>32. ASSUME NEW l \in Lockers, NEW m \in {"suspend", "restore"}, NEW u \in Tenants, InvoiceEvent(l, m, u, Active), UNCHANGED rentalVars
      PROVE  DoorInv'
    <2>1. KeysGoWithRows'
        BY <1>0, <1>32
        DEF InvoiceEvent, StartLocker, Reach, Active, rentalVars, TypeOK, AccessTypeOK, LockerFits,
            KeysGoWithRows
    <2>2. SameMode'
        BY <1>0, <1>32
        DEF InvoiceEvent, StartLocker, Reach, Active, rentalVars, TypeOK, AccessTypeOK, LockerFits, SameMode
    <2>3. Told'
        BY <1>0, <1>32
        DEF InvoiceEvent, StartLocker, Reach, Active, rentalVars, TypeOK, AccessTypeOK, LockerFits, SameMode,
            Told
    <2>4. Owed'
        BY <1>0, <1>32
        DEF InvoiceEvent, StartLocker, Reach, Active, rentalVars, TypeOK, AccessTypeOK, LockerFits, SameMode,
            Told, Owed, Writes
    <2>5. QED
        BY <2>1, <2>2, <2>3, <2>4 DEF DoorInv
<1>33. ASSUME NEW l \in Lockers, SkipRow(l), UNCHANGED rentalVars
      PROVE  DoorInv'
    <2>1. KeysGoWithRows'
        BY <1>0, <1>33 DEF SkipRow, AfterRound, rentalVars, TypeOK, AccessTypeOK, LockerFits, KeysGoWithRows
    <2>2. SameMode'
        BY <1>0, <1>33 DEF SkipRow, AfterRound, rentalVars, TypeOK, AccessTypeOK, LockerFits, SameMode
    <2>3. Told'
        BY <1>0, <1>33 DEF SkipRow, AfterRound, rentalVars, TypeOK, AccessTypeOK, LockerFits, SameMode, Told
    <2>4. Owed'
        BY <1>0, <1>33
        DEF SkipRow, AfterRound, rentalVars, TypeOK, AccessTypeOK, LockerFits, SameMode, Told, Owed, Writes
    <2>5. QED
        BY <2>1, <2>2, <2>3, <2>4 DEF DoorInv
<1>34. ASSUME NEW l \in Lockers, ReadRow(l), UNCHANGED rentalVars
      PROVE  DoorInv'
    <2>1. KeysGoWithRows'
        BY <1>0, <1>34
        DEF ReadRow, HasWork, Opposed, rentalVars, TypeOK, AccessTypeOK, LockerFits, KeysGoWithRows
    <2>2. SameMode'
        BY <1>0, <1>34 DEF ReadRow, HasWork, Opposed, rentalVars, TypeOK, AccessTypeOK, LockerFits, SameMode
    <2>3. Told'
        BY <1>0, <1>34
        DEF ReadRow, HasWork, Opposed, rentalVars, TypeOK, AccessTypeOK, LockerFits, SameMode, Told
    <2>4. Owed'
        BY <1>0, <1>34
        DEF ReadRow, HasWork, Opposed, rentalVars, TypeOK, AccessTypeOK, LockerFits, SameMode, Told, Owed,
            Writes
    <2>5. QED
        BY <2>1, <2>2, <2>3, <2>4 DEF DoorInv
<1>35. ASSUME NEW l \in Lockers, TellVendor(l), UNCHANGED rentalVars
      PROVE  DoorInv'
    <2>1. KeysGoWithRows'
        BY <1>0, <1>35 DEF TellVendor, rentalVars, TypeOK, AccessTypeOK, LockerFits, KeysGoWithRows
    <2>2. SameMode'
        BY <1>0, <1>35 DEF TellVendor, rentalVars, TypeOK, AccessTypeOK, LockerFits, SameMode
    <2>3. Told'
        BY <1>0, <1>35 DEF TellVendor, rentalVars, TypeOK, AccessTypeOK, LockerFits, SameMode, Told
    <2>4. Owed'
        BY <1>0, <1>35
        DEF TellVendor, rentalVars, TypeOK, AccessTypeOK, LockerFits, SameMode, Told, Owed, Writes
    <2>5. QED
        BY <2>1, <2>2, <2>3, <2>4 DEF DoorInv
<1>36. ASSUME NEW l \in Lockers, WriteRow(l), UNCHANGED rentalVars
      PROVE  DoorInv'
    <2>1. KeysGoWithRows'
        BY <1>0, <1>36 DEF WriteRow, AfterRound, rentalVars, TypeOK, AccessTypeOK, LockerFits, KeysGoWithRows
    <2>2. SameMode'
        BY <1>0, <1>36 DEF WriteRow, AfterRound, rentalVars, TypeOK, AccessTypeOK, LockerFits, SameMode
    <2>3. Told'
        BY <1>0, <1>36 DEF WriteRow, AfterRound, rentalVars, TypeOK, AccessTypeOK, LockerFits, SameMode, Told
    <2>4. Owed'
        BY <1>0, <1>36
        DEF WriteRow, AfterRound, rentalVars, TypeOK, AccessTypeOK, LockerFits, SameMode, Told, Owed, Writes
    <2>5. QED
        BY <2>1, <2>2, <2>3, <2>4 DEF DoorInv
<1>37. ASSUME NEW t \in PayCalls, PayStops(t)
      PROVE  DoorInv'
    <2>1. KeysGoWithRows'
        BY <1>0, <1>37 DEF PayStops, TypeOK, AccessTypeOK, LockerFits, KeysGoWithRows
    <2>2. SameMode'
        BY <1>0, <1>37 DEF PayStops, TypeOK, AccessTypeOK, LockerFits, SameMode
    <2>3. Told'
        BY <1>0, <1>37 DEF PayStops, TypeOK, AccessTypeOK, LockerFits, SameMode, Told
    <2>4. Owed'
        BY <1>0, <1>37 DEF PayStops, TypeOK, AccessTypeOK, LockerFits, SameMode, Told, Owed, Writes
    <2>5. QED
        BY <2>1, <2>2, <2>3, <2>4 DEF DoorInv
<1>38. ASSUME NEW a \in Agreements, Bill(a)
      PROVE  DoorInv'
    <2>1. KeysGoWithRows'
        BY <1>0, <1>38 DEF Bill, TypeOK, AccessTypeOK, LockerFits, KeysGoWithRows
    <2>2. SameMode'
        BY <1>0, <1>38 DEF Bill, TypeOK, AccessTypeOK, LockerFits, SameMode
    <2>3. Told'
        BY <1>0, <1>38 DEF Bill, TypeOK, AccessTypeOK, LockerFits, SameMode, Told
    <2>4. Owed'
        BY <1>0, <1>38 DEF Bill, TypeOK, AccessTypeOK, LockerFits, SameMode, Told, Owed, Writes
    <2>5. QED
        BY <2>1, <2>2, <2>3, <2>4 DEF DoorInv
<1>39. ASSUME NEW a \in Agreements, CloseQuietly(a)
      PROVE  DoorInv'
    <2>1. KeysGoWithRows'
        BY <1>0, <1>39 DEF CloseQuietly, TypeOK, AccessTypeOK, LockerFits, KeysGoWithRows
    <2>2. SameMode'
        BY <1>0, <1>39 DEF CloseQuietly, TypeOK, AccessTypeOK, LockerFits, SameMode
    <2>3. Told'
        BY <1>0, <1>39 DEF CloseQuietly, TypeOK, AccessTypeOK, LockerFits, SameMode, Told
    <2>4. Owed'
        BY <1>0, <1>39 DEF CloseQuietly, TypeOK, AccessTypeOK, LockerFits, SameMode, Told, Owed, Writes
    <2>5. QED
        BY <2>1, <2>2, <2>3, <2>4 DEF DoorInv
<1>40. ASSUME NEW l \in Lockers, LockerThrows(l)
      PROVE  DoorInv'
    <2>1. KeysGoWithRows'
        BY <1>0, <1>40
        DEF LockerThrows, ProcessDies, LockersStop, TypeOK, AccessTypeOK, LockerFits,
            KeysGoWithRows
    <2>2. SameMode'
        BY <1>0, <1>40
        DEF LockerThrows, ProcessDies, LockersStop, TypeOK, AccessTypeOK, LockerFits, SameMode
    <2>3. Told'
        BY <1>0, <1>40
        DEF LockerThrows, ProcessDies, LockersStop, TypeOK, AccessTypeOK, LockerFits, SameMode,
            Told
    <2>4. Owed'
        <3>1. PICK dead \in SUBSET Lockers : LockersStop(dead) /\ UNCHANGED keyVars
            <4>1. CASE l \in heard
                BY <1>40, <4>1 DEF LockerThrows, ProcessDies
            <4>2. CASE l \notin heard
                BY <1>40, <4>2 DEF LockerThrows
            <4>3. QED
                BY <4>1, <4>2
        <3>2. QED
            BY <1>0, <3>1 DEF LockersStop, TypeOK, AccessTypeOK, LockerFits, SameMode, Told, Owed, Writes
    <2>5. QED
        BY <2>1, <2>2, <2>3, <2>4 DEF DoorInv
<1>41. QED
    <2>1. CASE \E a \in Agreements : SendStatus(a) \/ SendRows(a) \/ DeskRelease(a) \/ Bill(a) \/ CloseQuietly(a)
        BY <2>1, <1>1, <1>2, <1>3, <1>38, <1>39
    <2>2. CASE \E t \in SignCalls : SignFind(t) \/ SignStep(t) \/ SignStops(t)
        BY <2>2, <1>4, <1>5, <1>6, <1>7, <1>8, <1>9 DEF SignStep
    <2>3. CASE \E t \in PayCalls : Pay(t) \/ PayQueue(t) \/ PayStops(t)
        BY <2>3, <1>10, <1>11, <1>37
    <2>4. CASE \E tenant \in Tenants : Grant(tenant) \/ Revoke(tenant)
        BY <2>4, <1>12, <1>13
    <2>5. CASE \E c \in Calls, t \in Jobs : TakeJob(c, t)
        BY <2>5, <1>14
    <2>6. CASE \E c \in Calls, k \in DOMAIN Entry, a \in Agreements : DeskCall(c, k, a)
        BY <2>6, <1>15
    <2>7. CASE \E c \in Calls : CallStep(c)
        BY <2>7, <1>16, <1>17, <1>18, <1>19, <1>20, <1>21, <1>22, <1>23, <1>24, <1>25, <1>26, <1>27 DEF CallStep
    <2>8. CASE \E c \in Calls : HandlerStep(c)
        BY <2>8, <1>28, <1>29, <1>30 DEF HandlerStep
    <2>9. CASE \E l \in Lockers : Lock(l)
        BY <2>9, <1>31, <1>32, <1>33, <1>34, <1>35, <1>36, TenantOfAssumption DEF Lock, LockerStep, rentalVars
    <2>10. CASE \E l \in Lockers : LockerThrows(l)
        BY <2>10, <1>40
    <2>11. QED
        BY <2>1, <2>2, <2>3, <2>4, <2>5, <2>6, <2>7, <2>8, <2>9, <2>10 DEF Next

-----------------------------------------------------------------------------
LEMMA FitAlways == Spec => []FitInv
<1>1. FitInv /\ [Next]_vars => FitInv'
    <2> SUFFICES ASSUME FitInv, [Next]_vars
                 PROVE  FitInv'
        OBVIOUS
    <2>1. CASE Next
        BY <2>1, NextType, NextFits DEF FitInv, PositionsFit
    <2>2. CASE UNCHANGED vars
        BY <2>2 DEF FitInv, TypeOK, AccessTypeOK, CallFits, JobFits, LockerFits, vars, accessVars, doorVars, keyVars,
            lockerVars, lockHistory, paperVars, partyVars, signVars, jobVars, callVars, handlerVars, rentalHistory
    <2>3. QED
        BY <2>1, <2>2
<1>2. QED
    BY InitFits, <1>1, PTL DEF Spec

(* The types of all variables, in every state. *)
THEOREM TypesHold == Spec => []TypeOK
<1>1. FitInv => TypeOK
    BY DEF FitInv
<1>2. QED
    BY FitAlways, <1>1, PTL

(* No agreement is active and no key released before its time, in every state. *)
THEOREM AccessIsEarnedHolds == Spec => []AccessIsEarned
<1> DEFINE Rest == Remembered /\ ChecksShow /\ JobsArePaid /\ AccessIsEarned
<1>1. Init => Rest
    <2> SUFFICES ASSUME Init
                 PROVE  Rest
        OBVIOUS
    <2>1. QED
        BY InitImports, TenantOfAssumption, NoAgreementAssumption
        DEF Init, AccessInit, Remembered, ChecksShow, JobsArePaid, AccessIsEarned, Entitled
<1>2. FitInv /\ Rest /\ [Next]_vars => Rest'
    <2> SUFFICES ASSUME FitInv, Rest, [Next]_vars
                 PROVE  Rest'
        OBVIOUS
    <2>1. CASE Next
        BY <2>1, NextEarned DEF EarnedInv
    <2>2. CASE UNCHANGED vars
        BY <2>2 DEF Remembered, ChecksShow, JobsArePaid, AccessIsEarned, Entitled, Complete, vars,
            accessVars, doorVars, keyVars, lockerVars, lockHistory, paperVars, partyVars, signVars, jobVars, callVars, handlerVars,
            rentalHistory
    <2>3. QED
        BY <2>1, <2>2
<1>3. FitInv /\ Rest => AccessIsEarned
    OBVIOUS
<1>4. QED
    BY FitAlways, <1>1, <1>2, <1>3, PTL DEF Spec

(* The row that an activation and its handler race for is created, in every state where both are through. *)
THEOREM ActiveIsIssuedHolds == Spec => []ActiveIsIssued
<1> DEFINE Rest == SomeoneIssues
<1>1. Init => Rest
    <2> SUFFICES ASSUME Init
                 PROVE  Rest
        OBVIOUS
    <2>1. QED
        BY InitImports, TenantOfAssumption, NoAgreementAssumption DEF Init, AccessInit, SomeoneIssues
<1>2. FitInv /\ Rest /\ [Next]_vars => Rest'
    <2> SUFFICES ASSUME FitInv, Rest, [Next]_vars
                 PROVE  Rest'
        OBVIOUS
    <2>1. CASE Next
        BY <2>1, NextIssues DEF IssueInv
    <2>2. CASE UNCHANGED vars
        BY <2>2 DEF SomeoneIssues, vars,
            accessVars, doorVars, keyVars, lockerVars, lockHistory, paperVars, partyVars, signVars, jobVars, callVars, handlerVars,
            rentalHistory
    <2>3. QED
        BY <2>1, <2>2
<1>3. FitInv /\ Rest => ActiveIsIssued
    BY DEF SomeoneIssues, ActiveIsIssued, Quiet
<1>4. QED
    BY FitAlways, <1>1, <1>2, <1>3, PTL DEF Spec

(* Row and key agree in every state where no locker has the row in hand. *)
THEOREM LockAgreesHolds == Spec => []LockAgrees
<1> DEFINE Rest == KeysGoWithRows /\ SameMode /\ Told /\ Owed
<1>1. Init => Rest
    <2> SUFFICES ASSUME Init
                 PROVE  Rest
        OBVIOUS
    <2>1. QED
        BY TenantOfAssumption, NoAgreementAssumption DEF Init, AccessInit, KeysGoWithRows, SameMode, Told, Owed, Writes
<1>2. FitInv /\ Rest /\ [Next]_vars => Rest'
    <2> SUFFICES ASSUME FitInv, Rest, [Next]_vars
                 PROVE  Rest'
        OBVIOUS
    <2>1. CASE Next
        BY <2>1, NextLocks DEF LockInv, DoorInv
    <2>2. CASE UNCHANGED vars
        BY <2>2 DEF KeysGoWithRows, SameMode, Told, Owed, Writes, vars,
            accessVars, doorVars, keyVars, lockerVars, lockHistory, paperVars, partyVars, signVars, jobVars, callVars, handlerVars,
            rentalHistory
    <2>3. QED
        BY <2>1, <2>2
<1>3. FitInv /\ Rest => LockAgrees
    BY DEF FitInv, TypeOK, AccessTypeOK, KeysGoWithRows, Owed, Writes, LockAgrees
<1>4. QED
    BY FitAlways, <1>1, <1>2, <1>3, PTL DEF Spec
=============================================================================
