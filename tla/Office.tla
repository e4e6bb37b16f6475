------------------------------- MODULE Office -------------------------------
(***************************************************************************)
(* Parts of the back office that share no state: the invoice run, the      *)
(* status of a unit, the team, the idempotency middleware, incidents and   *)
(* inspections, the catalog of listings, units and documents.  A behaviour *)
(* is about one of them, its scene, and the others rest, so that the state *)
(* space is the sum of theirs.                                             *)
(***************************************************************************)
EXTENDS Integers, Sequences, FiniteSets

CONSTANTS Agreements, Organisations, OrganisationOf, Legacy, Runs, ScopeOf, MaxInvoiceEvents, NoAgreement

ASSUME OrganisationOfAssumption == OrganisationOf \in [Agreements -> Organisations]
ASSUME ScopeOfAssumption == ScopeOf \in [Runs -> SUBSET Organisations]
ASSUME LegacyAssumption == Legacy \subseteq Agreements /\ NoAgreement \notin Agreements
ASSUME MaxInvoiceEventsAssumption == MaxInvoiceEvents \in Nat

CONSTANTS Desks, MaxUnitEvents

ASSUME MaxUnitEventsAssumption == MaxUnitEvents \in Nat

CONSTANTS Owners, Staff, Invitations, EmailOf, Requests, MaxTeamEvents, Nobody

ASSUME OwnersAssumption == Owners # {} /\ Owners \cap Staff = {}
ASSUME NobodyAssumption == Nobody \notin Owners \cup Staff \cup Invitations
ASSUME MaxTeamEventsAssumption == MaxTeamEvents \in Nat

CONSTANTS Posts, BodyOf, Servers, ServerOf, MaxFailures, NoPost

ASSUME ServerOfAssumption == ServerOf \in [Posts -> Servers]
ASSUME NoPostAssumption == NoPost \notin Posts
ASSUME MaxFailuresAssumption == MaxFailures \in Nat

CONSTANTS Incidents, Inspections, Clerks, MaxFindings, MaxTaskEvents, Nothing

ASSUME SubjectsAssumption == Incidents \cap Inspections = {} /\ Nothing \notin Incidents \cup Inspections
ASSUME TaskBoundsAssumption == MaxFindings \in Nat /\ MaxTaskEvents \in Nat

CONSTANTS Editors, Images, Limits, FreeLimit, Documents, MaxCatalogEvents, NoDocument

ASSUME LimitsAssumption == Limits \subseteq Nat /\ FreeLimit \in Limits
ASSUME DocumentsAssumption == Images \cap Documents = {} /\ NoDocument \notin Images \cup Documents
ASSUME MaxCatalogEventsAssumption == MaxCatalogEvents \in Nat

VARIABLES
    scene,
    active, created, number, lines, document, drawn, rpc, todo, ron, rnumber,
    listed, crossedRuns, broken, refused, invoiceEvents,
    unit, version, trail, tpc, seen, seenVersion, target, direct, disturbed, torn, unitEvents,
    removed, invitation, joined, qpc, who, hasty, raced, teamEvents,
    record, expired, answer, ppc, held, reply, ran, done, crowded, unsaved, failures,
    incident, inspection, findings, report, made, open, kpc, subject, left,
    touched, crossed, cut, taskEvents,
    images, edited, units, limit, docVersion, previous, epc, about, copy, allowed, latest,
    mixed, loose, forked, catalogEvents

Billing == INSTANCE InvoiceRun WITH crossed <- crossedRuns
Inventory == INSTANCE Units
People == INSTANCE Team
Middleware == INSTANCE Idempotency
Tasks == INSTANCE Operations
Shelf == INSTANCE Catalog

billingVars == <<active, created, number, lines, document, drawn, rpc, todo, ron, rnumber,
                 listed, crossedRuns, broken, refused, invoiceEvents>>
inventoryVars == <<unit, version, trail, tpc, seen, seenVersion, target, direct, disturbed, torn, unitEvents>>
peopleVars == <<removed, invitation, joined, qpc, who, hasty, raced, teamEvents>>
middlewareVars == <<record, expired, answer, ppc, held, reply, ran, done, crowded, unsaved, failures>>
tasksVars == <<incident, inspection, findings, report, made, open, kpc, subject, left,
               touched, crossed, cut, taskEvents>>
shelfVars == <<images, edited, units, limit, docVersion, previous, epc, about, copy, allowed, latest,
               mixed, loose, forked, catalogEvents>>

sceneVars == <<scene, billingVars, inventoryVars, peopleVars, middlewareVars, tasksVars, shelfVars>>

Init ==
    /\ scene \in {"billing", "inventory", "people", "middleware", "tasks", "shelf"}
    /\ Billing!Init /\ Inventory!Init /\ People!Init /\ Middleware!Init /\ Shelf!Init
    /\ Tasks!Init /\ (scene # "tasks" => \A n \in Inspections : inspection[n] = "none")

Next ==
    \/ /\ scene = "billing" /\ Billing!Next
       /\ UNCHANGED <<scene, inventoryVars, peopleVars, middlewareVars, tasksVars, shelfVars>>
    \/ /\ scene = "inventory" /\ Inventory!Next
       /\ UNCHANGED <<scene, billingVars, peopleVars, middlewareVars, tasksVars, shelfVars>>
    \/ /\ scene = "people" /\ People!Next
       /\ UNCHANGED <<scene, billingVars, inventoryVars, middlewareVars, tasksVars, shelfVars>>
    \/ /\ scene = "middleware" /\ Middleware!Next
       /\ UNCHANGED <<scene, billingVars, inventoryVars, peopleVars, tasksVars, shelfVars>>
    \/ /\ scene = "tasks" /\ Tasks!Next
       /\ UNCHANGED <<scene, billingVars, inventoryVars, peopleVars, middlewareVars, shelfVars>>
    \/ /\ scene = "shelf" /\ Shelf!Next
       /\ UNCHANGED <<scene, billingVars, inventoryVars, peopleVars, middlewareVars, tasksVars>>

Spec == Init /\ [][Next]_sceneVars
-----------------------------------------------------------------------------
(* Every part keeps to its types. *)
TypeOK ==
    /\ Billing!TypeOK /\ Inventory!TypeOK /\ People!TypeOK
    /\ Middleware!TypeOK /\ Tasks!TypeOK /\ Shelf!TypeOK

(* An agreement has one invoice, with one set of lines and one document, however runs overlap. *)
BilledOnce == Billing!BilledOnce

(* The invoice numbers of an organisation have no gaps. *)
NumbersHaveNoGaps == Billing!NumbersHaveNoGaps

(* The inventory events of a unit lead to its status. *)
HistoryExplainsStatus == Inventory!HistoryExplainsStatus

(* A transition is allowed from the status that it replaces. *)
TransitionsAreAllowed == Inventory!TransitionsAreAllowed

(* An organisation keeps an owner. *)
SomeOwner == People!SomeOwner

(* An invitation is accepted if and only if it has led to a member. *)
InvitationsAgree == People!InvitationsAgree

(* Under one idempotency record handlers run for one body. *)
OneBodyPerKey == Middleware!OneBodyPerKey

(* Under one idempotency record one handler succeeds. *)
SucceedsOnce == Middleware!SucceedsOnce

(* Incidents and inspections have the tasks that they should have. *)
TasksAgree == Tasks!TasksAgree

(* Images, unit counts and versions written from a copy agree with what was asked for. *)
CatalogAgrees == Shelf!CatalogAgrees
=============================================================================
