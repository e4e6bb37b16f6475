------------------------------- MODULE Units -------------------------------
(***************************************************************************)
(* The status of one unit.  transitionUnitStatus                           *)
(* (site-inventory.service.ts) goes by the table of transitions, guards    *)
(* its update by the version it has read, and adds the step to the unit's  *)
(* history in a second statement.  Inspections, the rental life cycle,     *)
(* imports and the unit editor write the status directly, without looking  *)
(* at it, at the version or at the history.                                *)
(***************************************************************************)
EXTENDS Integers, FiniteSets

CONSTANTS
    Desks,         \* concurrent transitions
    MaxUnitEvents  \* bound: transitions, direct writes and stops

Statuses == {"available", "reserved", "occupied", "maintenance", "out_of_service"}

ALLOWED_TRANSITIONS ==
    [available      |-> {"reserved", "maintenance", "out_of_service"},
     reserved       |-> {"available", "occupied", "maintenance"},
     occupied       |-> {"maintenance"},
     maintenance    |-> {"available", "out_of_service"},
     out_of_service |-> {"maintenance"}]

VARIABLES
    unit,        \* the unit's status
    version,     \* its auditVersion
    trail,       \* how often its inventory events lead from one status to another
    tpc, seen, seenVersion, target, \* transitions: position, what they have read, what they want
    \* history and bound
    direct,      \* something wrote the status directly
    disturbed,   \* transitions between whose read and update that happened
    torn,        \* a transition stopped before it added its event
    unitEvents

deskVars == <<tpc, seen, seenVersion, target>>
vars == <<unit, version, trail, deskVars, direct, disturbed, torn, unitEvents>>

TypeOK ==
    /\ unit \in Statuses
    /\ version \in Nat
    /\ trail \in [Statuses \X Statuses -> Nat]
    /\ tpc \in [Desks -> {"idle", "update", "note"}]
    /\ seen \in [Desks -> Statuses]
    /\ seenVersion \in [Desks -> Nat]
    /\ target \in [Desks -> Statuses]
    /\ {direct, torn} \subseteq BOOLEAN
    /\ disturbed \in SUBSET Desks
    /\ unitEvents \in 0..MaxUnitEvents

Init ==
    /\ unit = "available"
    /\ version = 1
    /\ trail = [step \in Statuses \X Statuses |-> 0]
    /\ tpc = [d \in Desks |-> "idle"]
    /\ seen = [d \in Desks |-> "available"]
    /\ seenVersion = [d \in Desks |-> 1]
    /\ target = [d \in Desks |-> "available"]
    /\ direct = FALSE /\ torn = FALSE /\ disturbed = {}
    /\ unitEvents = 0

Happens == unitEvents < MaxUnitEvents /\ unitEvents' = unitEvents + 1

Return(d) ==
    /\ tpc' = [tpc EXCEPT ![d] = "idle"]
    /\ seen' = [seen EXCEPT ![d] = "available"]
    /\ seenVersion' = [seenVersion EXCEPT ![d] = 1]
    /\ target' = [target EXCEPT ![d] = "available"]
    /\ disturbed' = disturbed \ {d}

-----------------------------------------------------------------------------
Read(d, to) ==
    /\ tpc[d] = "idle"
    /\ Happens
    /\ to \in ALLOWED_TRANSITIONS[unit]
    /\ tpc' = [tpc EXCEPT ![d] = "update"]
    /\ seen' = [seen EXCEPT ![d] = unit]
    /\ seenVersion' = [seenVersion EXCEPT ![d] = version]
    /\ target' = [target EXCEPT ![d] = to]
    /\ UNCHANGED <<unit, version, trail, direct, disturbed, torn>>

(* Faulty variant: the update goes by the id only. *)
Update_Unguarded(d) ==
    /\ tpc[d] = "update"
    /\ unit' = target[d] /\ version' = version + 1
    /\ tpc' = [tpc EXCEPT ![d] = "note"]
    /\ UNCHANGED <<trail, seen, seenVersion, target, direct, disturbed, torn, unitEvents>>

(* Faulty variant: the version is looked at but not incremented. *)
Update_SameVersion(d) ==
    /\ tpc[d] = "update" /\ version = seenVersion[d]
    /\ unit' = target[d]
    /\ tpc' = [tpc EXCEPT ![d] = "note"]
    /\ UNCHANGED <<version, trail, seen, seenVersion, target, direct, disturbed, torn, unitEvents>>

Update(d) ==
    /\ tpc[d] = "update" /\ version = seenVersion[d]
    /\ unit' = target[d] /\ version' = version + 1
    /\ tpc' = [tpc EXCEPT ![d] = "note"]
    /\ UNCHANGED <<trail, seen, seenVersion, target, direct, disturbed, torn, unitEvents>>

(* No row has the id and the version that was read: Prisma throws. *)
UpdateThrows(d) ==
    /\ tpc[d] = "update" /\ version # seenVersion[d]
    /\ Return(d)
    /\ UNCHANGED <<unit, version, trail, direct, torn, unitEvents>>

Note(d) ==
    /\ tpc[d] = "note"
    /\ trail' = [trail EXCEPT ![<<seen[d], target[d]>>] = @ + 1]
    /\ Return(d)
    /\ UNCHANGED <<unit, version, direct, torn, unitEvents>>

Stop(d) ==
    /\ tpc[d] # "idle"
    /\ Happens
    /\ torn' = (torn \/ tpc[d] = "note")
    /\ Return(d)
    /\ UNCHANGED <<unit, version, trail, direct>>

-----------------------------------------------------------------------------
WriteDirectly(s) ==
    /\ Happens
    /\ unit' = s
    /\ direct' = TRUE
    /\ disturbed' = disturbed \cup {d \in Desks : tpc[d] = "update"}
    /\ UNCHANGED <<version, trail, deskVars, torn>>

(* activateAndRelease and importExistingTenant. *)
Occupy == WriteDirectly("occupied")

(* An inspection of kind move_out, created or completed: passed or failed. *)
MoveOut == WriteDirectly("available") \/ WriteDirectly("maintenance")

(* The unit editor sends any status. *)
PatchUnit == \E s \in Statuses : WriteDirectly(s)

DeskStep(d) ==
    \/ \E to \in Statuses : Read(d, to)
    \/ Update(d) \/ UpdateThrows(d) \/ Note(d) \/ Stop(d)

Next == (\E d \in Desks : DeskStep(d)) \/ Occupy \/ MoveOut \/ PatchUnit

Spec == Init /\ [][Next]_vars
-----------------------------------------------------------------------------
Noting == {d \in Desks : tpc[d] = "note"}

(* The sum of a number for each status. *)
Total(f) == f["available"] + f["reserved"] + f["occupied"] + f["maintenance"] + f["out_of_service"]

(* How often the history leaves a status and comes to it, the events still to be added included. *)
Leaves(s) == Total([to \in Statuses |-> trail[<<s, to>>]]) + Cardinality({d \in Noting : seen[d] = s})
Enters(s) == Total([from \in Statuses |-> trail[<<from, s>>]]) + Cardinality({d \in Noting : target[d] = s})

(***************************************************************************)
(* The history explains the status.  Events may be added in another order  *)
(* than the updates were made, but together they lead from "available" to  *)
(* the status of the unit: of two transitions that read the same status,   *)
(* one is refused.  A direct write, and a stop before the event is added,  *)
(* leave a history that does not.                                          *)
(***************************************************************************)
HistoryExplainsStatus ==
    ~direct /\ ~torn =>
        \A s \in Statuses :
            Leaves(s) + (IF unit = s THEN 1 ELSE 0) = Enters(s) + (IF s = "available" THEN 1 ELSE 0)

(***************************************************************************)
(* A transition takes the unit from the status it has at that moment to    *)
(* one that the table allows from there, though the table was consulted    *)
(* some steps before, unless the status was written directly in between.   *)
(***************************************************************************)
TransitionsAreAllowed ==
    [][\A d \in Desks : tpc[d] = "update" /\ tpc'[d] = "note" /\ d \notin disturbed =>
           unit' \in ALLOWED_TRANSITIONS[unit]]_vars
=============================================================================
