----------------------------- MODULE Jobs_proofs -----------------------------
(***************************************************************************)
(* Proofs about the background-job table, for any number of jobs, workers, *)
(* effects, attempts, crashes and retries.                                 *)
(***************************************************************************)
EXTENDS Jobs, TLAPS

(***************************************************************************)
(* What each worker knows about the job it holds: the row exists, what is  *)
(* no longer to do has been done, and attempts never fall below what fail  *)
(* has read.                                                               *)
(***************************************************************************)
HeldExists == \A w \in Workers : pc[w] # "idle" => held[w] \in JobIds /\ status[held[w]] # "none"

DoneIsSent == \A w \in Workers : pc[w] = "run" => Effects[held[w]] \subseteq sent[held[w]] \cup todo[w]

SeenIsPast == \A w \in Workers : pc[w] = "fail" => seen[w] <= attempts[held[w]]

TodoIsOwn == \A w \in Workers : pc[w] = "run" => todo[w] \subseteq Effects[held[w]]

SentIsOwn == \A j \in JobIds : sent[j] \subseteq Effects[j]

IInv ==
    /\ TypeOK
    /\ HeldExists
    /\ DoneIsSent
    /\ SeenIsPast
    /\ TodoIsOwn
    /\ SentIsOwn
    /\ RunningIsOwned
    /\ FailedIsExhausted
    /\ CompletedIsApplied

(* The effects of a job are items. *)
LEMMA EffectsAreItems == \A j \in JobIds : Effects[j] \subseteq Items
BY DEF Items

LEMMA InitIInv == Init => IInv
BY BoundsAssumption
   DEF Init, IInv, TypeOK, Statuses, HeldExists, DoneIsSent, SeenIsPast, TodoIsOwn, SentIsOwn,
       RunningIsOwned, FailedIsExhausted, CompletedIsApplied

(* Every step of a worker, of the clock and of a client preserves IInv. *)
LEMMA StepIInv == IInv /\ [Next]_vars => IInv'
<1> SUFFICES ASSUME IInv, [Next]_vars
             PROVE  IInv'
    OBVIOUS
<1> USE NumJobsAssumption, MaxAttemptsAssumption, BoundsAssumption
    DEF IInv, TypeOK, HeldExists, DoneIsSent, SeenIsPast, TodoIsOwn, SentIsOwn,
        RunningIsOwned, FailedIsExhausted, CompletedIsApplied, Executes, Statuses,
        tableVars, workerVars, effectVars
<1>1. ASSUME NEW w \in Workers, ClaimRead(w)
      PROVE  IInv'
    <2>1. PICK j \in JobIds : status[j] = "queued" /\ held' = [held EXCEPT ![w] = j]
        BY <1>1, SelectionsAssumption DEF ClaimRead, Due
    <2>2. QED
        BY <1>1, <2>1 DEF ClaimRead
<1>2. ASSUME NEW w \in Workers, ClaimWrite(w)
      PROVE  IInv'
    <2>1. held[w] \in JobIds /\ Effects[held[w]] \subseteq Items
        BY <1>2, EffectsAreItems DEF ClaimWrite
    <2>2. QED
        BY <1>2, <2>1 DEF ClaimWrite
<1>3. ASSUME NEW w \in Workers, Apply(w)
      PROVE  IInv'
    <2>1. PICK i \in todo[w] :
              /\ todo' = [todo EXCEPT ![w] = @ \ {i}]
              /\ sent' = [sent EXCEPT ![held[w]] = @ \cup {i}]
              /\ repeated' = repeated \cup (IF i \in sent[held[w]] THEN {held[w]} ELSE {})
        BY <1>3 DEF Apply
    <2>2. held[w] \in JobIds
        BY <1>3 DEF Apply
    <2>3. i \in Items /\ i \in Effects[held[w]]
        BY <1>3 DEF Apply
    <2>4. \A j \in JobIds : sent[j] \subseteq sent'[j] /\ sent'[j] \subseteq Effects[j]
        BY <2>1, <2>2, <2>3
    <2>5. \A v \in Workers : todo'[v] = IF v = w THEN todo[w] \ {i} ELSE todo[v]
        BY <2>1
    <2>6. i \in sent'[held[w]]
        BY <2>1, <2>2
    <2>7. TypeOK'
        BY <1>3, <2>1, <2>2, <2>3 DEF Apply
    <2>8. DoneIsSent'
        <3>1. ASSUME NEW v \in Workers, pc'[v] = "run"
              PROVE  Effects[held'[v]] \subseteq sent'[held'[v]] \cup todo'[v]
            <4>1. held'[v] = held[v] /\ pc[v] = "run" /\ held[v] \in JobIds
                BY <1>3, <3>1 DEF Apply
            <4>2. Effects[held[v]] \subseteq sent'[held[v]] \cup todo[v]
                BY <4>1, <2>4
            <4>3. QED
                BY <4>1, <4>2, <2>5, <2>6
        <3>2. QED
            BY <3>1
    <2>9. TodoIsOwn' /\ SentIsOwn'
        BY <1>3, <2>4, <2>5 DEF Apply
    <2>10. HeldExists' /\ SeenIsPast' /\ RunningIsOwned' /\ FailedIsExhausted'
        BY <1>3 DEF Apply
    <2>11. CompletedIsApplied'
        <3>1. ASSUME NEW j \in JobIds, status[j] = "completed"
              PROVE  sent'[j] = Effects[j]
            BY <3>1, <2>4
        <3>2. QED
            BY <1>3, <3>1 DEF Apply
    <2>12. QED
        BY <2>7, <2>8, <2>9, <2>10, <2>11
<1>4. ASSUME NEW w \in Workers, Complete(w)
      PROVE  IInv'
    <2>1. held[w] \in JobIds /\ status[held[w]] # "none"
        BY <1>4 DEF Complete
    <2>2. sent[held[w]] = Effects[held[w]]
        <3>1. Effects[held[w]] \subseteq sent[held[w]]
            BY <1>4 DEF Complete
        <3>2. QED
            BY <2>1, <3>1
    <2>3. TypeOK'
        BY <1>4, <2>1 DEF Complete, Release
    <2>4. HeldExists' /\ DoneIsSent' /\ SeenIsPast' /\ TodoIsOwn' /\ SentIsOwn'
        BY <1>4, <2>1 DEF Complete, Release
    <2>5. RunningIsOwned' /\ FailedIsExhausted'
        BY <1>4, <2>1 DEF Complete, Release
    <2>6. CompletedIsApplied'
        BY <1>4, <2>1, <2>2 DEF Complete, Release
    <2>7. QED
        BY <2>3, <2>4, <2>5, <2>6
<1>5. ASSUME NEW w \in Workers, ThrowAndRead(w)
      PROVE  IInv'
    BY <1>5 DEF ThrowAndRead
<1>6. ASSUME NEW w \in Workers, FailWrite(w)
      PROVE  IInv'
    BY <1>6 DEF FailWrite, Release, HasBudget
<1>7. ASSUME NEW w \in Workers, Crash(w)
      PROVE  IInv'
    BY <1>7 DEF Crash, Release
<1>8. ASSUME NEW j \in JobIds, Enqueue(j)
      PROVE  IInv'
    <2>1. PICK delay \in StartDelays : runAt' = [runAt EXCEPT ![j] = now + delay]
        BY <1>8 DEF Enqueue
    <2>2. runAt' \in [JobIds -> Nat]
        BY <2>1, DelaysAssumption
    <2>3. QED
        BY <1>8, <2>2 DEF Enqueue
<1>9. ASSUME NEW j \in JobIds, Retry(j)
      PROVE  IInv'
    BY <1>9 DEF Retry
<1>10. ASSUME Tick
       PROVE  IInv'
    BY <1>10 DEF Tick
<1>11. CASE UNCHANGED vars
    BY <1>11 DEF vars
<1>12. QED
    BY <1>1, <1>2, <1>3, <1>4, <1>5, <1>6, <1>7, <1>8, <1>9, <1>10, <1>11 DEF Next, Step

LEMMA Invariance == Spec => []IInv
BY InitIInv, StepIInv, PTL DEF Spec

(* The columns of the table and the workers' local state keep their types. *)
THEOREM TypeCorrect == Spec => []TypeOK
<1>1. IInv => TypeOK
    BY DEF IInv
<1>2. QED
    BY <1>1, Invariance, PTL

(* A running row always has a worker, unless one crashed on it. *)
THEOREM NoLostRow == Spec => []RunningIsOwned
<1>1. IInv => RunningIsOwned
    BY DEF IInv
<1>2. QED
    BY <1>1, Invariance, PTL

(* A job is only given up after its last attempt. *)
THEOREM NoEarlyFailure == Spec => []FailedIsExhausted
<1>1. IInv => FailedIsExhausted
    BY DEF IInv
<1>2. QED
    BY <1>1, Invariance, PTL

-----------------------------------------------------------------------------
(* A step that leaves the status of the rows and the effects alone stutters. *)
LEMMA Stutters ==
    ASSUME UNCHANGED <<status, sent>>
    PROVE  UNCHANGED <<Outcome, sent>>
BY DEF Outcome

(* Writing one row changes one outcome. *)
LEMMA OneOutcome ==
    ASSUME TypeOK, NEW j \in JobIds, NEW s \in Statuses,
           status' = [status EXCEPT ![j] = s]
    PROVE  Outcome' = [Outcome EXCEPT ![j] = OutcomeOf(s)]
<1>1. status'[j] = s /\ \A k \in JobIds : k # j => status'[k] = status[k]
    BY DEF TypeOK
<1>2. Outcome' = [k \in JobIds |-> OutcomeOf(status'[k])]
    BY DEF Outcome, OutcomeOf
<1>3. Outcome' = [k \in JobIds |-> IF k = j THEN OutcomeOf(s) ELSE Outcome[k]]
    BY <1>1, <1>2 DEF Outcome
<1>4. QED
    BY <1>3 DEF Outcome

LEMMA StepRefines == IInv /\ [Next]_vars => [DQ!Next]_(DQ!dqVars)
<1> SUFFICES ASSUME IInv, [Next]_vars
             PROVE  DQ!Next \/ UNCHANGED <<Outcome, sent>>
    BY DEF DQ!dqVars
<1>0. TypeOK /\ HeldExists /\ DoneIsSent /\ TodoIsOwn
    BY DEF IInv
<1>1. ASSUME NEW w \in Workers, ClaimRead(w) \/ ThrowAndRead(w) \/ Crash(w)
      PROVE  UNCHANGED <<Outcome, sent>>
    BY <1>1, Stutters DEF ClaimRead, ThrowAndRead, Crash, tableVars, effectVars
<1>2. ASSUME NEW w \in Workers, ClaimWrite(w)
      PROVE  DQ!Next
    <2>1. held[w] \in JobIds /\ status[held[w]] # "none"
        BY <1>0, <1>2 DEF ClaimWrite, HeldExists
    <2>2. Outcome[held[w]] # "absent"
        BY <1>0, <2>1 DEF Outcome, OutcomeOf, TypeOK, Statuses
    <2>3. Outcome' = [Outcome EXCEPT ![held[w]] = "open"] /\ UNCHANGED sent
        BY <1>0, <1>2, <2>1, OneOutcome DEF ClaimWrite, OutcomeOf, Statuses, effectVars
    <2>4. DQ!Reopen(held[w])
        BY <2>2, <2>3 DEF DQ!Reopen, DQ!Known
    <2>5. QED
        BY <2>1, <2>4 DEF DQ!Next
<1>3. ASSUME NEW w \in Workers, Apply(w)
      PROVE  DQ!Next
    <2>1. PICK i \in todo[w] : sent' = [sent EXCEPT ![held[w]] = @ \cup {i}]
        BY <1>3 DEF Apply
    <2>2. held[w] \in JobIds /\ status[held[w]] # "none" /\ i \in Effects[held[w]]
        BY <1>0, <1>3 DEF Apply, HeldExists, TodoIsOwn
    <2>3. Outcome[held[w]] # "absent"
        BY <1>0, <2>2 DEF Outcome, OutcomeOf, TypeOK, Statuses
    <2>4. UNCHANGED Outcome
        BY <1>3 DEF Apply, tableVars, Outcome
    <2>5. DQ!Deliver(held[w], i)
        BY <2>1, <2>3, <2>4 DEF DQ!Deliver, DQ!Known
    <2>6. QED
        BY <2>2, <2>5 DEF DQ!Next
<1>4. ASSUME NEW w \in Workers, Complete(w)
      PROVE  DQ!Next
    <2>1. held[w] \in JobIds /\ status[held[w]] # "none"
        BY <1>0, <1>4 DEF Complete, HeldExists
    <2>2. Outcome[held[w]] # "absent"
        BY <1>0, <2>1 DEF Outcome, OutcomeOf, TypeOK, Statuses
    <2>3. Outcome' = [Outcome EXCEPT ![held[w]] = "done"] /\ UNCHANGED sent
        BY <1>0, <1>4, <2>1, OneOutcome DEF Complete, OutcomeOf, Statuses, effectVars
    <2>4. Effects[held[w]] \subseteq sent[held[w]]
        BY <1>0, <1>4 DEF Complete, DoneIsSent
    <2>5. DQ!Finish(held[w])
        BY <2>2, <2>3, <2>4 DEF DQ!Finish, DQ!Known
    <2>6. QED
        BY <2>1, <2>5 DEF DQ!Next
<1>5. ASSUME NEW w \in Workers, FailWrite(w)
      PROVE  DQ!Next
    <2>1. held[w] \in JobIds /\ status[held[w]] # "none"
        BY <1>0, <1>5 DEF FailWrite, HeldExists
    <2>2. Outcome[held[w]] # "absent"
        BY <1>0, <2>1 DEF Outcome, OutcomeOf, TypeOK, Statuses
    <2>3. CASE HasBudget(w)
        <3>1. Outcome' = [Outcome EXCEPT ![held[w]] = "open"] /\ UNCHANGED sent
            BY <1>0, <1>5, <2>1, <2>3, OneOutcome DEF FailWrite, OutcomeOf, Statuses, effectVars
        <3>2. DQ!Reopen(held[w])
            BY <2>2, <3>1 DEF DQ!Reopen, DQ!Known
        <3>3. QED
            BY <2>1, <3>2 DEF DQ!Next
    <2>4. CASE ~HasBudget(w)
        <3>1. Outcome' = [Outcome EXCEPT ![held[w]] = "dead"] /\ UNCHANGED sent
            BY <1>0, <1>5, <2>1, <2>4, OneOutcome DEF FailWrite, OutcomeOf, Statuses, effectVars
        <3>2. DQ!GiveUp(held[w])
            BY <2>2, <3>1 DEF DQ!GiveUp, DQ!Known
        <3>3. QED
            BY <2>1, <3>2 DEF DQ!Next
    <2>5. QED
        BY <2>3, <2>4
<1>6. ASSUME NEW j \in JobIds, Enqueue(j)
      PROVE  DQ!Next
    <2>1. Outcome[j] = "absent"
        BY <1>6 DEF Enqueue, Outcome, OutcomeOf
    <2>2. Outcome' = [Outcome EXCEPT ![j] = "open"] /\ UNCHANGED sent
        BY <1>0, <1>6, OneOutcome DEF Enqueue, OutcomeOf, Statuses, effectVars
    <2>3. DQ!Submit(j)
        BY <2>1, <2>2 DEF DQ!Submit, DQ!Known
    <2>4. QED
        BY <2>3 DEF DQ!Next
<1>7. ASSUME NEW j \in JobIds, Retry(j)
      PROVE  DQ!Next
    <2>1. Outcome[j] # "absent"
        BY <1>0, <1>7 DEF Retry, Outcome, OutcomeOf, TypeOK, Statuses
    <2>2. Outcome' = [Outcome EXCEPT ![j] = "open"] /\ UNCHANGED sent
        BY <1>0, <1>7, OneOutcome DEF Retry, OutcomeOf, Statuses, effectVars
    <2>3. DQ!Reopen(j)
        BY <2>1, <2>2 DEF DQ!Reopen, DQ!Known
    <2>4. QED
        BY <2>3 DEF DQ!Next
<1>8. ASSUME Tick \/ UNCHANGED vars
      PROVE  UNCHANGED <<Outcome, sent>>
    BY <1>8, Stutters DEF Tick, vars, tableVars, effectVars
<1>9. QED
    BY <1>1, <1>2, <1>3, <1>4, <1>5, <1>6, <1>7, <1>8 DEF Next, Step

(***************************************************************************)
(* The table, with its unguarded updates, double claims, crashes and       *)
(* retries, implements the queue that reports a job done only after all of *)
(* its effects.                                                            *)
(***************************************************************************)
THEOREM Delivery == Spec => DeliversAtLeastOnce
<1>1. Init => DQ!Init
    BY DEF Init, DQ!Init, Outcome, OutcomeOf
<1>2. QED
    BY <1>1, StepRefines, Invariance, PTL DEF Spec, DeliversAtLeastOnce, DQ!Spec
=============================================================================
