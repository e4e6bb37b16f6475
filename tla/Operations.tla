----------------------------- MODULE Operations -----------------------------
(***************************************************************************)
(* Incidents, inspections and the tasks that they leave                    *)
(* (operations.service.ts, inspection.service.ts, reportIncident of        *)
(* tenant-portal.service.ts).  A task refers to its subject by name only;  *)
(* subject and tasks are written in separate statements, and requests may  *)
(* come between them.                                                      *)
(***************************************************************************)
EXTENDS Integers

CONSTANTS
    Incidents,
    Inspections,
    Clerks,         \* concurrent requests
    MaxFindings,    \* bound: failed items of a checklist
    MaxTaskEvents,  \* bound: requests and stops
    Nothing

Subjects == Incidents \cup Inspections

VARIABLES
    incident,   \* none, open (or investigating) or resolved
    inspection, \* none, pending (no completedAt) or completed
    findings,   \* failed items of each inspection's checklist
    report,     \* inspections with a report
    made,       \* tasks that have been created for each subject
    open,       \* those that are neither completed nor cancelled
    kpc, subject, left, \* requests: position, subject, tasks still to create
    \* history and bound
    touched,    \* subjects with a task changed by hand
    crossed,    \* incidents resolved before their task was created, inspections completed twice
    cut,        \* subjects a request stopped on
    taskEvents

clerkVars == <<kpc, subject, left>>
taskHistory == <<touched, crossed, cut>>
vars == <<incident, inspection, findings, report, made, open, clerkVars, taskHistory, taskEvents>>

TypeOK ==
    /\ incident \in [Incidents -> {"none", "open", "resolved"}]
    /\ inspection \in [Inspections -> {"none", "pending", "completed"}]
    /\ findings \in [Inspections -> 0..MaxFindings]
    /\ report \in SUBSET Inspections
    /\ made \in [Subjects -> Nat]
    /\ open \in [Subjects -> Nat]
    /\ kpc \in [Clerks -> {"idle", "task", "resolve", "complete", "items"}]
    /\ subject \in [Clerks -> Subjects \cup {Nothing}]
    /\ left \in [Clerks -> 0..MaxFindings]
    /\ {touched, crossed, cut} \subseteq SUBSET Subjects
    /\ taskEvents \in 0..MaxTaskEvents

(* Inspections that are pending come from elsewhere, such as the seed. *)
Init ==
    /\ incident = [i \in Incidents |-> "none"]
    /\ inspection \in [Inspections -> {"none", "pending"}]
    /\ findings = [n \in Inspections |-> 0]
    /\ report = {}
    /\ made = [x \in Subjects |-> 0]
    /\ open = [x \in Subjects |-> 0]
    /\ kpc = [k \in Clerks |-> "idle"]
    /\ subject = [k \in Clerks |-> Nothing]
    /\ left = [k \in Clerks |-> 0]
    /\ touched = {} /\ crossed = {} /\ cut = {}
    /\ taskEvents = 0

Happens == taskEvents < MaxTaskEvents /\ taskEvents' = taskEvents + 1

Begin(k, where, x) ==
    /\ kpc[k] = "idle"
    /\ Happens
    /\ kpc' = [kpc EXCEPT ![k] = where]
    /\ subject' = [subject EXCEPT ![k] = x]

Return(k) ==
    /\ kpc' = [kpc EXCEPT ![k] = "idle"]
    /\ subject' = [subject EXCEPT ![k] = Nothing]

Meets(k, x, where) == IF \E c \in Clerks \ {k} : subject[c] = x /\ kpc[c] \in where THEN crossed \cup {x} ELSE crossed

AddTask(x) ==
    /\ made' = [made EXCEPT ![x] = @ + 1]
    /\ open' = [open EXCEPT ![x] = @ + 1]

-----------------------------------------------------------------------------
CreateIncident(k, i) ==
    /\ incident[i] = "none"
    /\ Begin(k, "task", i)
    /\ incident' = [incident EXCEPT ![i] = "open"]
    /\ UNCHANGED <<inspection, findings, report, made, open, left, taskHistory>>

CreateTask(k) ==
    /\ kpc[k] = "task"
    /\ AddTask(subject[k])
    /\ Return(k)
    /\ UNCHANGED <<incident, inspection, findings, report, left, taskHistory, taskEvents>>

(* Faulty variant: the tasks are left as they are. *)
CloseTasks_Omitted(k, i) ==
    /\ incident[i] # "none"
    /\ Begin(k, "resolve", i)
    /\ UNCHANGED <<incident, inspection, findings, report, made, open, left, taskHistory>>

(* resolveIncident, and updateIncident to resolved: first the tasks, then the incident. *)
CloseTasks(k, i) ==
    /\ incident[i] # "none"
    /\ Begin(k, "resolve", i)
    /\ open' = [open EXCEPT ![i] = 0]
    /\ crossed' = Meets(k, i, {"task"})
    /\ UNCHANGED <<incident, inspection, findings, report, made, left, touched, cut>>

MarkResolved(k) ==
    /\ kpc[k] = "resolve"
    /\ incident' = [incident EXCEPT ![subject[k]] = "resolved"]
    /\ Return(k)
    /\ UNCHANGED <<inspection, findings, report, made, open, left, taskHistory, taskEvents>>

(* updateIncident to another status. *)
Reopen(i) ==
    /\ incident[i] = "resolved"
    /\ Happens
    /\ incident' = [incident EXCEPT ![i] = "open"]
    /\ UNCHANGED <<inspection, findings, report, made, open, clerkVars, taskHistory>>

(* updateTask: a task is closed or opened again by hand. *)
UpdateTask(x) ==
    /\ Happens
    /\ \/ open[x] > 0 /\ open' = [open EXCEPT ![x] = @ - 1]
       \/ open[x] < made[x] /\ open' = [open EXCEPT ![x] = @ + 1]
    /\ touched' = touched \cup {x}
    /\ UNCHANGED <<incident, inspection, findings, report, made, clerkVars, crossed, cut>>

-----------------------------------------------------------------------------
WriteResult(k, n, f) ==
    /\ inspection' = [inspection EXCEPT ![n] = "completed"]
    /\ findings' = [findings EXCEPT ![n] = f]
    /\ left' = [left EXCEPT ![k] = f]

(* createInspectionRun: the row is created complete. *)
CreateInspection(k, n, f) ==
    /\ inspection[n] = "none"
    /\ Begin(k, "items", n)
    /\ WriteResult(k, n, f)
    /\ UNCHANGED <<incident, report, made, open, taskHistory>>

FindInspection(k, n) ==
    /\ inspection[n] = "pending"
    /\ Begin(k, "complete", n)
    /\ crossed' = Meets(k, n, {"complete"})
    /\ UNCHANGED <<incident, inspection, findings, report, made, open, left, touched, cut>>

CompleteInspection(k, f) ==
    /\ kpc[k] = "complete"
    /\ WriteResult(k, subject[k], f)
    /\ kpc' = [kpc EXCEPT ![k] = "items"]
    /\ UNCHANGED <<incident, report, made, open, subject, taskHistory, taskEvents>>

(* Faulty variant: the loop goes on for one round too many. *)
CreateTaskForItem_OneMore(k) ==
    /\ kpc[k] = "items" /\ left[k] >= 0
    /\ left' = [left EXCEPT ![k] = @ - 1]
    /\ AddTask(subject[k])
    /\ UNCHANGED <<incident, inspection, findings, report, kpc, subject, taskHistory, taskEvents>>

CreateTaskForItem(k) ==
    /\ kpc[k] = "items" /\ left[k] > 0
    /\ left' = [left EXCEPT ![k] = @ - 1]
    /\ AddTask(subject[k])
    /\ UNCHANGED <<incident, inspection, findings, report, kpc, subject, taskHistory, taskEvents>>

(* The report is stored and entered in the row; a notice of deductions from the deposit may follow. *)
StoreReport(k) ==
    /\ kpc[k] = "items" /\ left[k] = 0
    /\ report' = report \cup {subject[k]}
    /\ Return(k)
    /\ UNCHANGED <<incident, inspection, findings, made, open, left, taskHistory, taskEvents>>

-----------------------------------------------------------------------------
(* A statement throws or the process dies. *)
Stop(k) ==
    /\ kpc[k] # "idle"
    /\ Happens
    /\ cut' = cut \cup {subject[k]}
    /\ left' = [left EXCEPT ![k] = 0]
    /\ Return(k)
    /\ UNCHANGED <<incident, inspection, findings, report, made, open, touched, crossed>>

ClerkStep(k) ==
    \/ \E i \in Incidents : CreateIncident(k, i) \/ CloseTasks(k, i)
    \/ \E n \in Inspections : FindInspection(k, n) \/ \E f \in 0..MaxFindings : CreateInspection(k, n, f)
    \/ \E f \in 0..MaxFindings : CompleteInspection(k, f)
    \/ CreateTask(k) \/ MarkResolved(k) \/ CreateTaskForItem(k) \/ StoreReport(k) \/ Stop(k)

Next ==
    \/ \E k \in Clerks : ClerkStep(k)
    \/ \E i \in Incidents : Reopen(i)
    \/ \E x \in Subjects : UpdateTask(x)

Spec == Init /\ [][Next]_vars
-----------------------------------------------------------------------------
Undisturbed(x) == x \notin touched \cup crossed \cup cut /\ \A k \in Clerks : subject[k] # x

(***************************************************************************)
(* No work is left behind and none is done twice: when nobody is at it, an *)
(* incident has exactly one task, which is closed if the incident is       *)
(* resolved, though it may be resolved twice and opened again; a completed *)
(* inspection has its report and as many tasks as its checklist has failed *)
(* items.  That is so unless somebody resolved the incident before its     *)
(* task was there, completed the inspection at the same time, changed a    *)
(* task by hand, or was stopped.                                           *)
(***************************************************************************)
TasksAgree ==
    /\ \A i \in Incidents : Undisturbed(i) =>
           /\ made[i] = (IF incident[i] = "none" THEN 0 ELSE 1)
           /\ incident[i] = "resolved" => open[i] = 0
    /\ \A n \in Inspections : Undisturbed(n) =>
           /\ made[n] = findings[n]
           /\ inspection[n] = "completed" => n \in report
=============================================================================
