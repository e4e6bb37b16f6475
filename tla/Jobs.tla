-------------------------------- MODULE Jobs --------------------------------
(***************************************************************************)
(* The background-job table of the API and the processes that drain it     *)
(* (modules/jobs/jobs.service.ts, jobs.controller.ts,                      *)
(* platform.service.ts).  A worker is one call of processNext, or one      *)
(* external caller of the claim / complete / fail endpoints.  Every await  *)
(* of a worker is a point at which the others run, so each handler is cut  *)
(* into one action per database round trip.                                *)
(*                                                                         *)
(* The handler executed for a job is a loop that applies the effects of    *)
(* the job one by one, as sendSavedSearchAlerts does with its matches.       *)
(***************************************************************************)
EXTENDS Integers

CONSTANTS
    NumJobs,      \* how many jobs are ever created
    Effects,      \* the effects each job's handler applies
    Workers,      \* concurrent calls of processNext
    MaxAttempts,  \* maxAttempts of each job
    Selections,   \* the sets of jobs that a caller's "kinds" filter admits
    StartDelays,  \* how long after their creation jobs may fall due
    RetryDelay,   \* retryDelayMs, in ticks of the model's clock
    MaxRetries,   \* bound: retries requested by platform operators
    MaxCrashes    \* bound: process crashes

JobIds == 1..NumJobs
Items == UNION {Effects[j] : j \in JobIds}

ASSUME NumJobsAssumption == NumJobs \in Nat
ASSUME MaxAttemptsAssumption == MaxAttempts \in [JobIds -> Nat]
ASSUME SelectionsAssumption == Selections \subseteq SUBSET JobIds
ASSUME DelaysAssumption == StartDelays \subseteq Nat
ASSUME BoundsAssumption == RetryDelay \in Nat /\ MaxRetries \in Nat /\ MaxCrashes \in Nat

VARIABLES
    \* the BackgroundJob table
    status,     \* "none" before the row exists, then the column status
    attempts,   \* the column attempts
    runAt,      \* the column runAt
    \* the workers
    pc,         \* where each worker is
    held,       \* the job each worker has read (0: none)
    todo,       \* the effects its handler still has to apply
    seen,       \* the attempts that fail() has read
    \* the world
    now,        \* the clock
    sent,       \* the effects each job has applied at least once
    repeated,   \* jobs that have applied some effect a second time
    abandoned,  \* jobs a crashed worker was executing, since the last retry
    retries,    \* operator retries so far
    crashes     \* crashes so far

tableVars == <<status, attempts, runAt>>
workerVars == <<pc, held, todo, seen>>
effectVars == <<sent, repeated>>
vars == <<tableVars, workerVars, now, effectVars, abandoned, retries, crashes>>

Statuses == {"none", "queued", "running", "completed", "failed"}

TypeOK ==
    /\ status \in [JobIds -> Statuses]
    /\ attempts \in [JobIds -> Nat]
    /\ runAt \in [JobIds -> Nat]
    /\ pc \in [Workers -> {"idle", "claim", "run", "fail"}]
    /\ held \in [Workers -> JobIds \cup {0}]
    /\ todo \in [Workers -> SUBSET Items]
    /\ seen \in [Workers -> Nat]
    /\ now \in Nat
    /\ sent \in [JobIds -> SUBSET Items]
    /\ repeated \in SUBSET JobIds
    /\ abandoned \in SUBSET JobIds
    /\ retries \in 0..MaxRetries
    /\ crashes \in 0..MaxCrashes

Init ==
    /\ status = [j \in JobIds |-> "none"]
    /\ attempts = [j \in JobIds |-> 0]
    /\ runAt = [j \in JobIds |-> 0]
    /\ pc = [w \in Workers |-> "idle"]
    /\ held = [w \in Workers |-> 0]
    /\ todo = [w \in Workers |-> {}]
    /\ seen = [w \in Workers |-> 0]
    /\ now = 0
    /\ sent = [j \in JobIds |-> {}]
    /\ repeated = {}
    /\ abandoned = {}
    /\ retries = 0
    /\ crashes = 0

(***************************************************************************)
(* enqueue: rows are created in the order of their identifiers, due now or *)
(* later.                                                                  *)
(***************************************************************************)
Enqueue(j) ==
    /\ status[j] = "none"
    /\ \A k \in JobIds : k < j => status[k] # "none"
    /\ status' = [status EXCEPT ![j] = "queued"]
    /\ \E delay \in StartDelays : runAt' = [runAt EXCEPT ![j] = now + delay]
    /\ UNCHANGED <<attempts, workerVars, now, effectVars, abandoned, retries, crashes>>

(***************************************************************************)
(* claimNext.  The transaction's two statements are two steps: the default *)
(* isolation level lets another transaction read the same queued row       *)
(* before the update, and the update names the row by id alone.            *)
(***************************************************************************)
Due(selection) == {j \in selection : status[j] = "queued" /\ runAt[j] <= now}

Before(j, k) == runAt[j] < runAt[k] \/ (runAt[j] = runAt[k] /\ j <= k)

ClaimRead(w) ==
    /\ pc[w] = "idle"
    /\ \E selection \in Selections : \E j \in Due(selection) :
         /\ \A k \in Due(selection) : Before(j, k)
         /\ held' = [held EXCEPT ![w] = j]
    /\ pc' = [pc EXCEPT ![w] = "claim"]
    /\ UNCHANGED <<tableVars, todo, seen, now, effectVars, abandoned, retries, crashes>>

ClaimWrite(w) ==
    /\ pc[w] = "claim"
    /\ status' = [status EXCEPT ![held[w]] = "running"]
    /\ attempts' = [attempts EXCEPT ![held[w]] = @ + 1]
    /\ pc' = [pc EXCEPT ![w] = "run"]
    /\ todo' = [todo EXCEPT ![w] = Effects[held[w]]]
    /\ UNCHANGED <<runAt, held, seen, now, effectVars, abandoned, retries, crashes>>

(***************************************************************************)
(* processNext: the handler's loop, then complete, or the catch block.     *)
(***************************************************************************)
Release(w) ==
    /\ pc' = [pc EXCEPT ![w] = "idle"]
    /\ held' = [held EXCEPT ![w] = 0]
    /\ todo' = [todo EXCEPT ![w] = {}]
    /\ seen' = [seen EXCEPT ![w] = 0]

Apply(w) ==
    /\ pc[w] = "run"
    /\ \E i \in todo[w] :
         /\ todo' = [todo EXCEPT ![w] = @ \ {i}]
         /\ sent' = [sent EXCEPT ![held[w]] = @ \cup {i}]
         /\ repeated' = repeated \cup (IF i \in sent[held[w]] THEN {held[w]} ELSE {})
    /\ UNCHANGED <<tableVars, pc, held, seen, now, abandoned, retries, crashes>>

(* Faulty variant: handler errors are skipped and the job is completed. *)
Complete_Early(w) ==
    /\ pc[w] = "run"
    /\ status' = [status EXCEPT ![held[w]] = "completed"]
    /\ Release(w)
    /\ UNCHANGED <<attempts, runAt, now, effectVars, abandoned, retries, crashes>>

Complete(w) ==
    /\ pc[w] = "run"
    /\ todo[w] = {}
    /\ status' = [status EXCEPT ![held[w]] = "completed"]
    /\ Release(w)
    /\ UNCHANGED <<attempts, runAt, now, effectVars, abandoned, retries, crashes>>

(* Faulty variant: no catch block, the error leaves the row as it is. *)
ThrowAndRead_Uncaught(w) ==
    /\ pc[w] = "run"
    /\ Release(w)
    /\ UNCHANGED <<tableVars, now, effectVars, abandoned, retries, crashes>>

(***************************************************************************)
(* The handler throws and fail reads the attempts; the row is written by a *)
(* later statement that checks nothing.                                    *)
(***************************************************************************)
ThrowAndRead(w) ==
    /\ pc[w] = "run"
    /\ seen' = [seen EXCEPT ![w] = attempts[held[w]]]
    /\ pc' = [pc EXCEPT ![w] = "fail"]
    /\ UNCHANGED <<tableVars, held, todo, now, effectVars, abandoned, retries, crashes>>

(* Faulty variant: an off-by-one in the comparison. *)
HasBudget_OffByOne(w) == seen[w] + 1 < MaxAttempts[held[w]]

HasBudget(w) == seen[w] < MaxAttempts[held[w]]

(* Faulty variant: a spent job keeps the status it had. *)
FailWrite_KeepsStatus(w) ==
    /\ pc[w] = "fail"
    /\ status' = [status EXCEPT ![held[w]] = IF HasBudget(w) THEN "queued" ELSE @]
    /\ runAt' = [runAt EXCEPT ![held[w]] = IF HasBudget(w) THEN now + RetryDelay ELSE @]
    /\ Release(w)
    /\ UNCHANGED <<attempts, now, effectVars, abandoned, retries, crashes>>

FailWrite(w) ==
    /\ pc[w] = "fail"
    /\ status' = [status EXCEPT ![held[w]] = IF HasBudget(w) THEN "queued" ELSE "failed"]
    /\ runAt' = [runAt EXCEPT ![held[w]] = IF HasBudget(w) THEN now + RetryDelay ELSE @]
    /\ Release(w)
    /\ UNCHANGED <<attempts, now, effectVars, abandoned, retries, crashes>>

(***************************************************************************)
(* The process dies.  A claim that was not committed is rolled back; a     *)
(* claimed row keeps the status running and its lock has no expiry.        *)
(***************************************************************************)
Crash(w) ==
    /\ pc[w] # "idle"
    /\ crashes < MaxCrashes
    /\ crashes' = crashes + 1
    /\ abandoned' = abandoned \cup (IF pc[w] = "claim" THEN {} ELSE {held[w]})
    /\ Release(w)
    /\ UNCHANGED <<tableVars, now, effectVars, retries>>

(* Faulty variant: a retry grants a fresh budget by rewinding the counter. *)
Retry_Rewinds(j) ==
    /\ status[j] # "none"
    /\ retries < MaxRetries
    /\ retries' = retries + 1
    /\ status' = [status EXCEPT ![j] = "queued"]
    /\ runAt' = [runAt EXCEPT ![j] = now]
    /\ attempts' = [attempts EXCEPT ![j] = @ - MaxAttempts[j]]
    /\ abandoned' = abandoned \ {j}
    /\ UNCHANGED <<workerVars, now, effectVars, crashes>>

(* retryJob of the platform console: any row, whatever its status. *)
Retry(j) ==
    /\ status[j] # "none"
    /\ retries < MaxRetries
    /\ retries' = retries + 1
    /\ status' = [status EXCEPT ![j] = "queued"]
    /\ runAt' = [runAt EXCEPT ![j] = now]
    /\ abandoned' = abandoned \ {j}
    /\ UNCHANGED <<attempts, workerVars, now, effectVars, crashes>>

(* Time passes; the clock only moves while some job waits for it. *)
Tick ==
    /\ \E j \in JobIds : status[j] = "queued" /\ runAt[j] > now
    /\ now' = now + 1
    /\ UNCHANGED <<tableVars, workerVars, effectVars, abandoned, retries, crashes>>

Step(w) ==
    \/ ClaimRead(w)
    \/ ClaimWrite(w)
    \/ Apply(w)
    \/ Complete(w)
    \/ ThrowAndRead(w)
    \/ FailWrite(w)

Next ==
    \/ \E w \in Workers : Step(w) \/ Crash(w)
    \/ \E j \in JobIds : Enqueue(j) \/ Retry(j)
    \/ Tick

Spec == Init /\ [][Next]_vars

(***************************************************************************)
(* A scheduler keeps calling processNext, a handler returns or throws, and *)
(* the clock advances.  Nobody has to enqueue, retry or crash.             *)
(***************************************************************************)
Fairness == WF_vars(Tick) /\ \A w \in Workers : WF_vars(Step(w))

FairSpec == Spec /\ Fairness
-----------------------------------------------------------------------------
Executes(w, j) == held[w] = j /\ pc[w] \in {"run", "fail"}

(***************************************************************************)
(* A row that says running is being executed by some worker, or one died   *)
(* on it.  claimNext may hand one job to two workers, and each of them     *)
(* overwrites the row without looking at it: the claim of the second, the  *)
(* complete and the fail of the first must still never leave a running row *)
(* that nobody works on.                                                   *)
(***************************************************************************)
RunningIsOwned ==
    \A j \in JobIds :
        status[j] = "running" => j \in abandoned \/ \E w \in Workers : Executes(w, j)

(***************************************************************************)
(* fail gives a job up only when it has used all of its attempts, although *)
(* it decides on a number of attempts it read one statement earlier.       *)
(***************************************************************************)
FailedIsExhausted ==
    \A j \in JobIds : status[j] = "failed" => attempts[j] >= MaxAttempts[j]

(***************************************************************************)
(* A job that is reported completed has had every effect applied, whoever  *)
(* of several workers, attempts and crashes reported it.                   *)
(***************************************************************************)
CompletedIsApplied ==
    \A j \in JobIds : status[j] = "completed" => sent[j] = Effects[j]

(***************************************************************************)
(* The documentation asks for idempotent jobs ("Jobs must be idempotent"): *)
(* no effect of a job, such as the mail about a saved search, is applied   *)
(* twice.                                                                  *)
(***************************************************************************)
IdempotentJobs == repeated = {}

(***************************************************************************)
(* Every queued job is finished, given up, or left behind by a crash: a    *)
(* job that keeps failing ahead of it in the order of runAt does not       *)
(* starve it, and races between workers do not lose it.                    *)
(***************************************************************************)
Settled(j) == status[j] \in {"completed", "failed"} \/ j \in abandoned

EveryJobSettles == \A j \in JobIds : status[j] = "queued" ~> Settled(j)

(***************************************************************************)
(* The table implements the queue that the rest of the system relies on.   *)
(***************************************************************************)
OutcomeOf(s) ==
    CASE s = "none" -> "absent"
      [] s \in {"queued", "running"} -> "open"
      [] s = "completed" -> "done"
      [] s = "failed" -> "dead"

Outcome == [j \in JobIds |-> OutcomeOf(status[j])]

DQ == INSTANCE DeliveryQueue WITH Jobs <- JobIds, Effects <- Effects, outcome <- Outcome, delivered <- sent

DeliversAtLeastOnce == DQ!Spec
=============================================================================
