---------------------------- MODULE Office_proofs ----------------------------
(***************************************************************************)
(* Proofs about the team, the status of a unit, incidents and inspections, *)
(* the catalog, and the types of all parts of the back office, for any     *)
(* number of members, requests, desks, clerks and editors.                 *)
(***************************************************************************)
EXTENDS Idempotency_proofs, InvoiceRun_proofs, FiniteSetTheorems

-----------------------------------------------------------------------------
(* Removals of owners that have counted the owners. *)
Removers == {q \in Requests : qpc[q] = "remove" /\ who[q] \in Owners}

TwoOwners == \E a, b \in People!OwnersLeft : a # b

(* Before the first overlap: one removal at most, and it leaves somebody. *)
RemovalsAreSafe ==
    ~hasty => /\ \A p, q \in Removers : p = q
              /\ Removers # {} => TwoOwners
              /\ People!OwnersLeft # {}

(* What a request is about goes with its position. *)
AboutFits ==
    \A q \in Requests :
        /\ qpc[q] = "count" => who[q] \in Owners
        /\ qpc[q] \in {"count", "remove"} => who[q] \in People!Members
        /\ qpc[q] \in {"revoke", "join"} => who[q] \in Invitations

(* An invitation that is being revoked, and nobody races, has led to nobody and will not. *)
RevokedInPeace ==
    \A q \in Requests : qpc[q] = "revoke" /\ who[q] \notin raced =>
        /\ who[q] \notin joined
        /\ \A p \in Requests : qpc[p] = "join" => who[p] # who[q]

TeamInv ==
    /\ People!TypeOK /\ AboutFits
    /\ RemovalsAreSafe
    /\ RevokedInPeace /\ People!InvitationsAgree

LEMMA TeamInit == People!Init => TeamInv
<1> SUFFICES ASSUME People!Init
             PROVE  TeamInv
    OBVIOUS
<1> USE DEF People!Init
<1>1. People!TypeOK
    <2>1. teamEvents \in 0..MaxTeamEvents
        BY MaxTeamEventsAssumption
    <2>2. removed \in SUBSET People!Members /\ joined \in SUBSET Invitations /\ raced \in SUBSET Invitations
        OBVIOUS
    <2>3. QED
        BY <2>1, <2>2 DEF People!TypeOK
<1>2. RemovalsAreSafe
    BY OwnersAssumption DEF RemovalsAreSafe, Removers, People!OwnersLeft
<1>3. AboutFits /\ RevokedInPeace /\ People!InvitationsAgree
    BY DEF AboutFits, RevokedInPeace, People!InvitationsAgree
<1>4. QED
    BY <1>1, <1>2, <1>3 DEF TeamInv

LEMMA RequestKeepsTeam ==
    ASSUME TeamInv, NEW q \in Requests, People!RequestStep(q)
    PROVE  TeamInv'
<1> USE MaxTeamEventsAssumption, NobodyAssumption
    DEF People!Happens, People!Begin, People!Return, People!Members, People!requestVars
<1>0. People!TypeOK /\ AboutFits /\ RemovalsAreSafe /\ RevokedInPeace /\ People!InvitationsAgree
    BY DEF TeamInv
<1>1. ASSUME NEW m \in People!Members, People!FindMember(q, m)
      PROVE  TeamInv'
    <2>1. People!TypeOK' /\ AboutFits'
        BY <1>0, <1>1 DEF People!FindMember, People!TypeOK, AboutFits
    <2>2. RemovalsAreSafe'
        <3>1. Removers' = Removers
            BY <1>0, <1>1, OwnersAssumption DEF People!FindMember, People!TypeOK, Removers
        <3>2. QED
            BY <1>0, <1>1, <3>1 DEF People!FindMember, RemovalsAreSafe, TwoOwners, People!OwnersLeft
    <2>3. RevokedInPeace' /\ People!InvitationsAgree'
        BY <1>0, <1>1 DEF People!FindMember, People!TypeOK, RevokedInPeace, People!InvitationsAgree, AboutFits
    <2>4. QED
        BY <2>1, <2>2, <2>3 DEF TeamInv
<1>2. ASSUME NEW i \in Invitations, People!FindToRevoke(q, i)
      PROVE  TeamInv'
    <2>1. People!TypeOK' /\ AboutFits'
        BY <1>0, <1>2 DEF People!FindToRevoke, People!Race, People!TypeOK, AboutFits
    <2>2. RemovalsAreSafe'
        BY <1>0, <1>2 DEF People!FindToRevoke, People!TypeOK, RemovalsAreSafe, Removers, TwoOwners, People!OwnersLeft
    <2>3. RevokedInPeace' /\ People!InvitationsAgree'
        BY <1>0, <1>2 DEF People!FindToRevoke, People!Race, People!TypeOK, RevokedInPeace, People!InvitationsAgree, AboutFits
    <2>4. QED
        BY <2>1, <2>2, <2>3 DEF TeamInv
<1>3. ASSUME NEW i \in Invitations, People!FindToAccept(q, i)
      PROVE  TeamInv'
    <2>1. People!TypeOK' /\ AboutFits'
        BY <1>0, <1>3 DEF People!FindToAccept, People!Race, People!TypeOK, AboutFits
    <2>2. RemovalsAreSafe'
        BY <1>0, <1>3 DEF People!FindToAccept, People!TypeOK, RemovalsAreSafe, Removers, TwoOwners, People!OwnersLeft
    <2>3. RevokedInPeace' /\ People!InvitationsAgree'
        BY <1>0, <1>3 DEF People!FindToAccept, People!Race, People!TypeOK, RevokedInPeace, People!InvitationsAgree, AboutFits
    <2>4. QED
        BY <2>1, <2>2, <2>3 DEF TeamInv
<1>4. CASE People!CountOwners(q)
    <2>1. People!TypeOK' /\ AboutFits'
        BY <1>0, <1>4 DEF People!CountOwners, People!TypeOK, AboutFits
    <2>2. RemovalsAreSafe'
        <3>1. CASE People!LastOwner
            <4>1. Removers' = Removers /\ UNCHANGED <<removed, hasty>>
                <5>1. People!Return(q) /\ UNCHANGED <<removed, hasty>>
                    BY <1>4, <3>1 DEF People!CountOwners
                <5>2. qpc[q] = "count"
                    BY <1>4 DEF People!CountOwners
                <5>3. QED
                    BY <1>0, <5>1, <5>2 DEF People!TypeOK, Removers
            <4>2. QED
                BY <1>0, <4>1 DEF RemovalsAreSafe, TwoOwners, People!OwnersLeft
        <3>2. CASE ~People!LastOwner
            <4>1. TwoOwners
                BY <3>2 DEF TwoOwners, People!LastOwner
            <4>2. TwoOwners'
                BY <1>4, <4>1 DEF People!CountOwners, TwoOwners, People!OwnersLeft
            <4>3. ~hasty' => \A p \in Requests \ {q} : p \notin Removers'
                <5>1. /\ qpc' = [qpc EXCEPT ![q] = "remove"] /\ UNCHANGED who
                      /\ hasty' = (hasty \/ \E p \in Requests \ {q} : qpc[p] = "remove" /\ who[p] \in Owners)
                    BY <1>4, <3>2 DEF People!CountOwners
                <5>2. QED
                    BY <1>0, <5>1 DEF People!TypeOK, Removers
            <4>4. QED
                BY <4>2, <4>3 DEF RemovalsAreSafe, Removers, TwoOwners
        <3>3. QED
            BY <3>1, <3>2
    <2>3. RevokedInPeace' /\ People!InvitationsAgree'
        BY <1>0, <1>4 DEF People!CountOwners, People!TypeOK, RevokedInPeace, People!InvitationsAgree, AboutFits
    <2>4. QED
        BY <2>1, <2>2, <2>3 DEF TeamInv
<1>5. CASE People!RemoveMember(q)
    <2>1. People!TypeOK' /\ AboutFits'
        BY <1>0, <1>5 DEF People!RemoveMember, People!TypeOK, AboutFits
    <2>2. RemovalsAreSafe'
        <3>1. Removers' = Removers \ {q}
            BY <1>0, <1>5 DEF People!RemoveMember, People!TypeOK, Removers
        <3>2. CASE q \in Removers
            <4>1. ~hasty => Removers' = {} /\ People!OwnersLeft' # {}
                BY <1>0, <1>5, <3>1, <3>2 DEF People!RemoveMember, RemovalsAreSafe, TwoOwners, People!OwnersLeft
            <4>2. QED
                BY <1>5, <4>1 DEF People!RemoveMember, RemovalsAreSafe
        <3>3. CASE q \notin Removers
            <4>1. People!OwnersLeft' = People!OwnersLeft
                BY <1>5, <3>3 DEF People!RemoveMember, Removers, People!OwnersLeft
            <4>2. QED
                BY <1>0, <1>5, <3>1, <3>3, <4>1 DEF People!RemoveMember, RemovalsAreSafe, TwoOwners
        <3>4. QED
            BY <3>2, <3>3
    <2>3. RevokedInPeace' /\ People!InvitationsAgree'
        BY <1>0, <1>5 DEF People!RemoveMember, People!TypeOK, RevokedInPeace, People!InvitationsAgree, AboutFits
    <2>4. QED
        BY <2>1, <2>2, <2>3 DEF TeamInv
<1>6. CASE People!Revoke(q)
    <2>1. People!TypeOK' /\ AboutFits'
        BY <1>0, <1>6 DEF People!Revoke, People!TypeOK, AboutFits
    <2>2. RemovalsAreSafe'
        BY <1>0, <1>6 DEF People!Revoke, People!TypeOK, RemovalsAreSafe, Removers, TwoOwners, People!OwnersLeft
    <2>3. RevokedInPeace' /\ People!InvitationsAgree'
        BY <1>0, <1>6 DEF People!Revoke, People!TypeOK, RevokedInPeace, People!InvitationsAgree, AboutFits
    <2>4. QED
        BY <2>1, <2>2, <2>3 DEF TeamInv
<1>7. CASE People!Join(q)
    <2>1. People!TypeOK' /\ AboutFits'
        BY <1>0, <1>7 DEF People!Join, People!Known, People!TypeOK, AboutFits
    <2>2. RemovalsAreSafe'
        BY <1>0, <1>7 DEF People!Join, People!TypeOK, RemovalsAreSafe, Removers, TwoOwners, People!OwnersLeft
    <2>3. RevokedInPeace' /\ People!InvitationsAgree'
        BY <1>0, <1>7 DEF People!Join, People!Known, People!TypeOK, RevokedInPeace, People!InvitationsAgree, AboutFits
    <2>4. QED
        BY <2>1, <2>2, <2>3 DEF TeamInv
<1>8. CASE People!Stop(q)
    <2>1. People!TypeOK' /\ AboutFits'
        BY <1>0, <1>8 DEF People!Stop, People!TypeOK, AboutFits
    <2>2. RemovalsAreSafe'
        BY <1>0, <1>8 DEF People!Stop, People!TypeOK, RemovalsAreSafe, Removers, TwoOwners, People!OwnersLeft
    <2>3. RevokedInPeace' /\ People!InvitationsAgree'
        BY <1>0, <1>8 DEF People!Stop, People!TypeOK, RevokedInPeace, People!InvitationsAgree, AboutFits
    <2>4. QED
        BY <2>1, <2>2, <2>3 DEF TeamInv
<1>9. QED
    BY <1>1, <1>2, <1>3, <1>4, <1>5, <1>6, <1>7, <1>8 DEF People!RequestStep

LEMMA InviteKeepsTeam ==
    ASSUME TeamInv, NEW i \in Invitations, People!Invite(i)
    PROVE  TeamInv'
BY MaxTeamEventsAssumption
DEF TeamInv, People!Invite, People!Happens, People!requestVars, People!TypeOK, AboutFits, RemovalsAreSafe,
    Removers, TwoOwners, People!OwnersLeft, RevokedInPeace, People!InvitationsAgree

LEMMA TeamNext == TeamInv /\ [Next]_sceneVars => TeamInv'
<1> SUFFICES ASSUME TeamInv, [Next]_sceneVars
             PROVE  TeamInv'
    OBVIOUS
<1>1. CASE People!Next
    BY <1>1, RequestKeepsTeam, InviteKeepsTeam DEF People!Next
<1>2. CASE UNCHANGED peopleVars
    BY <1>2
    DEF peopleVars, TeamInv, People!TypeOK, AboutFits, RemovalsAreSafe, Removers, TwoOwners,
        People!OwnersLeft, RevokedInPeace, People!InvitationsAgree
<1>3. QED
    BY <1>1, <1>2 DEF Next, sceneVars

LEMMA TeamAlways == Spec => []TeamInv
<1>1. Init => TeamInv
    BY TeamInit DEF Init
<1>2. QED
    BY <1>1, TeamNext, PTL DEF Spec

(***************************************************************************)
(* The organisation keeps an owner unless two removals of owners           *)
(* overlapped, for any number of owners and of requests.                   *)
(***************************************************************************)
THEOREM SomeOwnerHolds == Spec => []SomeOwner
<1>1. TeamInv => SomeOwner
    BY DEF TeamInv, RemovalsAreSafe, SomeOwner, People!SomeOwner
<1>2. QED
    BY <1>1, TeamAlways, PTL

(***************************************************************************)
(* An invitation is accepted if and only if it has led to a member, unless *)
(* it was revoked meanwhile, and no address leads to two users; for any    *)
(* number of invitations, addresses and requests.                          *)
(***************************************************************************)
THEOREM InvitationsAgreeHolds == Spec => []InvitationsAgree
<1>1. TeamInv => InvitationsAgree
    BY DEF TeamInv, InvitationsAgree
<1>2. QED
    BY <1>1, TeamAlways, PTL
-----------------------------------------------------------------------------
(* What a transition knows between its read and its update. *)
ReadIsCurrent ==
    \A d \in Desks : tpc[d] = "update" =>
        /\ seenVersion[d] <= version
        /\ target[d] \in Inventory!ALLOWED_TRANSITIONS[seen[d]]
        /\ seenVersion[d] = version /\ d \notin disturbed => seen[d] = unit

UnitsInv == Inventory!TypeOK /\ ReadIsCurrent

LEMMA UnitsInit == Inventory!Init => UnitsInv
<1> SUFFICES ASSUME Inventory!Init
             PROVE  UnitsInv
    OBVIOUS
<1> USE DEF Inventory!Init
<1>1. unitEvents \in 0..MaxUnitEvents
    BY MaxUnitEventsAssumption
<1>2. unit \in Inventory!Statuses /\ trail \in [Inventory!Statuses \X Inventory!Statuses -> Nat]
    BY DEF Inventory!Statuses
<1>3. seen \in [Desks -> Inventory!Statuses] /\ target \in [Desks -> Inventory!Statuses]
    BY DEF Inventory!Statuses
<1>4. Inventory!TypeOK
    BY <1>1, <1>2, <1>3 DEF Inventory!TypeOK
<1>5. ReadIsCurrent
    BY DEF ReadIsCurrent
<1>6. QED
    BY <1>4, <1>5 DEF UnitsInv

LEMMA DeskKeepsUnits ==
    ASSUME UnitsInv, NEW d \in Desks, Inventory!DeskStep(d)
    PROVE  UnitsInv'
<1> USE MaxUnitEventsAssumption DEF Inventory!Happens, Inventory!deskVars
<1>0. Inventory!TypeOK /\ ReadIsCurrent
    BY DEF UnitsInv
<1>s. "available" \in Inventory!Statuses
    BY DEF Inventory!Statuses
<1>1. ASSUME NEW to \in Inventory!Statuses, Inventory!Read(d, to)
      PROVE  UnitsInv'
    <2>1. Inventory!TypeOK'
        BY <1>0, <1>s, <1>1 DEF Inventory!Read, Inventory!TypeOK
    <2>2. ReadIsCurrent'
        BY <1>0, <1>1 DEF Inventory!Read, Inventory!TypeOK, ReadIsCurrent
    <2>3. QED
        BY <2>1, <2>2 DEF UnitsInv
<1>2. CASE Inventory!Update(d)
    <2>1. Inventory!TypeOK'
        BY <1>0, <1>s, <1>2 DEF Inventory!Update, Inventory!TypeOK
    <2>2. ReadIsCurrent'
        BY <1>0, <1>2 DEF Inventory!Update, Inventory!TypeOK, ReadIsCurrent
    <2>3. QED
        BY <2>1, <2>2 DEF UnitsInv
<1>3. CASE Inventory!UpdateThrows(d)
    <2>1. Inventory!TypeOK'
        BY <1>0, <1>s, <1>3 DEF Inventory!UpdateThrows, Inventory!Return, Inventory!TypeOK
    <2>2. ReadIsCurrent'
        BY <1>0, <1>3 DEF Inventory!UpdateThrows, Inventory!Return, Inventory!TypeOK, ReadIsCurrent
    <2>3. QED
        BY <2>1, <2>2 DEF UnitsInv
<1>4. CASE Inventory!Note(d)
    <2>1. Inventory!TypeOK'
        BY <1>0, <1>s, <1>4 DEF Inventory!Note, Inventory!Return, Inventory!TypeOK
    <2>2. ReadIsCurrent'
        BY <1>0, <1>4 DEF Inventory!Note, Inventory!Return, Inventory!TypeOK, ReadIsCurrent
    <2>3. QED
        BY <2>1, <2>2 DEF UnitsInv
<1>5. CASE Inventory!Stop(d)
    <2>1. Inventory!TypeOK'
        BY <1>0, <1>s, <1>5 DEF Inventory!Stop, Inventory!Return, Inventory!TypeOK
    <2>2. ReadIsCurrent'
        BY <1>0, <1>5 DEF Inventory!Stop, Inventory!Return, Inventory!TypeOK, ReadIsCurrent
    <2>3. QED
        BY <2>1, <2>2 DEF UnitsInv
<1>6. QED
    BY <1>1, <1>2, <1>3, <1>4, <1>5 DEF Inventory!DeskStep

LEMMA WriterKeepsUnits ==
    ASSUME UnitsInv, NEW s \in Inventory!Statuses, Inventory!WriteDirectly(s)
    PROVE  UnitsInv'
BY MaxUnitEventsAssumption
DEF UnitsInv, Inventory!WriteDirectly, Inventory!Happens, Inventory!deskVars, Inventory!TypeOK, ReadIsCurrent

LEMMA UnitsNext == UnitsInv /\ [Next]_sceneVars => UnitsInv'
<1> SUFFICES ASSUME UnitsInv, [Next]_sceneVars
             PROVE  UnitsInv'
    OBVIOUS
<1>1. CASE Inventory!Next
    <2>1. {"available", "occupied", "maintenance"} \subseteq Inventory!Statuses
        BY DEF Inventory!Statuses
    <2>2. QED
        BY <1>1, <2>1, DeskKeepsUnits, WriterKeepsUnits
        DEF Inventory!Next, Inventory!Occupy, Inventory!MoveOut, Inventory!PatchUnit
<1>2. CASE UNCHANGED inventoryVars
    BY <1>2 DEF inventoryVars, UnitsInv, Inventory!TypeOK, ReadIsCurrent
<1>3. QED
    BY <1>1, <1>2 DEF Next, sceneVars

LEMMA UnitsAlways == Spec => []UnitsInv
<1>1. Init => UnitsInv
    BY UnitsInit DEF Init
<1>2. QED
    BY <1>1, UnitsNext, PTL DEF Spec

(* Only its own update takes a transition from reading to noting. *)
LEMMA OnlyUpdates ==
    ASSUME Inventory!TypeOK, [Next]_sceneVars, NEW d \in Desks, tpc[d] = "update", tpc'[d] = "note"
    PROVE  Inventory!Update(d)
<1>1. CASE Inventory!Next
    <2>1. ASSUME NEW c \in Desks, Inventory!DeskStep(c)
          PROVE  Inventory!Update(d)
        BY <2>1 DEF Inventory!TypeOK, Inventory!DeskStep, Inventory!Read, Inventory!Update,
               Inventory!UpdateThrows, Inventory!Note, Inventory!Stop, Inventory!Return
    <2>2. ASSUME NEW s, Inventory!WriteDirectly(s)
          PROVE  FALSE
        BY <2>2 DEF Inventory!WriteDirectly, Inventory!deskVars
    <2>3. QED
        BY <1>1, <2>1, <2>2 DEF Inventory!Next, Inventory!Occupy, Inventory!MoveOut, Inventory!PatchUnit
<1>2. CASE UNCHANGED inventoryVars
    BY <1>2 DEF inventoryVars
<1>3. QED
    BY <1>1, <1>2 DEF Next, sceneVars

(***************************************************************************)
(* A transition leads from the status that it replaces to one that the     *)
(* table allows from there, unless something wrote the status directly     *)
(* between its read and its update; for any number of transitions.         *)
(***************************************************************************)
THEOREM TransitionsAreAllowedHolds == Spec => TransitionsAreAllowed
<1>1. UnitsInv /\ [Next]_sceneVars =>
          [\A d \in Desks : tpc[d] = "update" /\ tpc'[d] = "note" /\ d \notin disturbed =>
               unit' \in Inventory!ALLOWED_TRANSITIONS[unit]]_(Inventory!vars)
    <2> SUFFICES ASSUME UnitsInv, [Next]_sceneVars,
                        NEW d \in Desks, tpc[d] = "update", tpc'[d] = "note", d \notin disturbed
                 PROVE  unit' \in Inventory!ALLOWED_TRANSITIONS[unit]
        OBVIOUS
    <2>1. Inventory!Update(d)
        BY OnlyUpdates DEF UnitsInv
    <2>2. QED
        BY <2>1 DEF UnitsInv, Inventory!TypeOK, ReadIsCurrent, Inventory!Update
<1>2. QED
    BY <1>1, UnitsAlways, PTL DEF Spec, TransitionsAreAllowed, Inventory!TransitionsAreAllowed

(***************************************************************************)
(* The history of a unit.  Transitions that have updated the unit and have *)
(* yet to add their event are finitely many, so that they can be counted,  *)
(* and as long as nothing is written directly nothing is disturbed.        *)
(***************************************************************************)
(* The transitions whose event will lead from a status, and to it. *)
From(s) == {d \in Inventory!Noting : seen[d] = s}
To(s) == {d \in Inventory!Noting : target[d] = s}

(* The events that lead from a status, and to it. *)
Out(s) == Inventory!Total([to \in Inventory!Statuses |-> trail[<<s, to>>]])
In(s) == Inventory!Total([from \in Inventory!Statuses |-> trail[<<from, s>>]])

HistoryInv ==
    /\ UnitsInv
    /\ IsFiniteSet(Inventory!Noting)
    /\ ~direct => disturbed = {}
    /\ Inventory!HistoryExplainsStatus

(* An event more from a to b is one more in the row of a, and one more in the column of b. *)
LEMMA TrailGrows ==
    ASSUME Inventory!TypeOK, NEW a \in Inventory!Statuses, NEW b \in Inventory!Statuses,
           trail' = [trail EXCEPT ![<<a, b>>] = @ + 1], NEW s \in Inventory!Statuses
    PROVE  /\ Out(s)' = Out(s) + (IF a = s THEN 1 ELSE 0)
           /\ In(s)' = In(s) + (IF b = s THEN 1 ELSE 0)
<1>1. ASSUME NEW x \in Inventory!Statuses, NEW y \in Inventory!Statuses
      PROVE  /\ trail[<<x, y>>] \in Nat
             /\ trail'[<<x, y>>] = trail[<<x, y>>] + (IF x = a /\ y = b THEN 1 ELSE 0)
    BY DEF Inventory!TypeOK
<1>2. \A to \in Inventory!Statuses : trail'[<<s, to>>] = trail[<<s, to>>] + (IF s = a /\ to = b THEN 1 ELSE 0)
    BY <1>1
<1>3. \A from \in Inventory!Statuses : trail'[<<from, s>>] = trail[<<from, s>>] + (IF from = a /\ s = b THEN 1 ELSE 0)
    BY <1>1
<1>4. \A to \in Inventory!Statuses : trail[<<s, to>>] \in Nat /\ trail[<<to, s>>] \in Nat
    BY <1>1
<1>5. QED
    BY <1>2, <1>3, <1>4 DEF Out, In, Inventory!Total, Inventory!Statuses

(* What is counted are numbers. *)
LEMMA CountsAreNumbers ==
    ASSUME HistoryInv, NEW s \in Inventory!Statuses
    PROVE  /\ IsFiniteSet(From(s)) /\ Cardinality(From(s)) \in Nat
           /\ IsFiniteSet(To(s)) /\ Cardinality(To(s)) \in Nat
           /\ Out(s) \in Nat /\ In(s) \in Nat
<1>1. IsFiniteSet(From(s)) /\ IsFiniteSet(To(s))
    BY FS_Subset DEF HistoryInv, From, To
<1>2. \A t \in Inventory!Statuses : trail[<<s, t>>] \in Nat /\ trail[<<t, s>>] \in Nat
    BY DEF HistoryInv, UnitsInv, Inventory!TypeOK
<1>3. Cardinality(From(s)) \in Nat /\ Cardinality(To(s)) \in Nat
    BY <1>1, FS_CardinalityType
<1>4. Out(s) \in Nat /\ In(s) \in Nat
    BY <1>2 DEF Out, In, Inventory!Total, Inventory!Statuses
<1>5. QED
    BY <1>1, <1>3, <1>4

(* The steps out of a status and into it, the unit's first and its present status included. *)
Balanced(s) ==
    Out(s) + Cardinality(From(s)) + (IF unit = s THEN 1 ELSE 0)
        = In(s) + Cardinality(To(s)) + (IF s = "available" THEN 1 ELSE 0)

(* The module of the unit counts with its own instance of Cardinality. *)
LEMMA SameCardinality ==
    ASSUME NEW S
    PROVE  Inventory!Cardinality(S) = Cardinality(S)
BY DEF Inventory!Cardinality, Cardinality

(* The history explains the status if and only if every status is balanced, before a step and after it. *)
LEMMA Balance ==
    /\ Inventory!HistoryExplainsStatus <=> (~direct /\ ~torn => \A s \in Inventory!Statuses : Balanced(s))
    /\ Inventory!HistoryExplainsStatus' <=> (~direct' /\ ~torn' => \A s \in Inventory!Statuses : Balanced(s)')
<1>1. ASSUME NEW s
      PROVE  Inventory!Leaves(s) = Out(s) + Cardinality(From(s)) /\ Inventory!Enters(s) = In(s) + Cardinality(To(s))
    BY SameCardinality DEF Inventory!Leaves, Inventory!Enters, Out, In, From, To
<1>2. ASSUME NEW s
      PROVE  /\ Inventory!Leaves(s)' = Out(s)' + Cardinality(From(s))'
             /\ Inventory!Enters(s)' = In(s)' + Cardinality(To(s))'
    BY SameCardinality DEF Inventory!Leaves, Inventory!Enters, Out, In, From, To
<1>3. QED
    BY <1>1, <1>2 DEF Inventory!HistoryExplainsStatus, Balanced

(* A step that neither updates nor notes leaves the balance alone. *)
LEMMA BalanceStays ==
    ASSUME HistoryInv, UNCHANGED <<unit, trail>>, Inventory!Noting' = Inventory!Noting,
           \A d \in Inventory!Noting : seen'[d] = seen[d] /\ target'[d] = target[d],
           ~direct' => ~direct, ~torn' => ~torn
    PROVE  IsFiniteSet(Inventory!Noting)' /\ Inventory!HistoryExplainsStatus'
<1>1. \A s : From(s)' = From(s) /\ To(s)' = To(s) /\ Out(s)' = Out(s) /\ In(s)' = In(s)
    BY DEF From, To, Out, In, Inventory!Total
<1>2. ~direct' /\ ~torn' => \A s \in Inventory!Statuses : Balanced(s)'
    BY <1>1, Balance DEF HistoryInv, Balanced
<1>3. QED
    BY <1>2, Balance DEF HistoryInv

(* An update takes the unit from the status that the transition has read, and one event is to be added. *)
LEMMA UpdateKeepsHistory ==
    ASSUME HistoryInv, NEW d \in Desks, Inventory!Update(d)
    PROVE  IsFiniteSet(Inventory!Noting)' /\ Inventory!HistoryExplainsStatus'
<1>1. /\ Inventory!TypeOK /\ tpc[d] = "update" /\ tpc' = [tpc EXCEPT ![d] = "note"] /\ unit' = target[d]
      /\ UNCHANGED <<trail, seen, target, direct, torn, disturbed>>
    BY DEF HistoryInv, UnitsInv, Inventory!Update
<1>2. ~direct => unit = seen[d]
    BY DEF HistoryInv, UnitsInv, ReadIsCurrent, Inventory!Update
<1>3. Inventory!Noting' = Inventory!Noting \cup {d} /\ d \notin Inventory!Noting
    BY <1>1 DEF Inventory!TypeOK, Inventory!Noting
<1>4. IsFiniteSet(Inventory!Noting)'
    BY <1>3, FS_AddElement DEF HistoryInv
<1>5. ASSUME NEW s \in Inventory!Statuses
      PROVE  /\ Cardinality(From(s))' = Cardinality(From(s)) + (IF seen[d] = s THEN 1 ELSE 0)
             /\ Cardinality(To(s))' = Cardinality(To(s)) + (IF target[d] = s THEN 1 ELSE 0)
    <2>1. /\ From(s)' = (IF seen[d] = s THEN From(s) \cup {d} ELSE From(s))
          /\ To(s)' = (IF target[d] = s THEN To(s) \cup {d} ELSE To(s))
          /\ d \notin From(s) /\ d \notin To(s)
        BY <1>1, <1>3 DEF From, To
    <2>2. /\ IsFiniteSet(From(s)) /\ Cardinality(From(s)) \in Nat
          /\ IsFiniteSet(To(s)) /\ Cardinality(To(s)) \in Nat
        BY CountsAreNumbers
    <2>3. Cardinality(From(s) \cup {d}) = Cardinality(From(s)) + 1 /\ Cardinality(To(s) \cup {d}) = Cardinality(To(s)) + 1
        BY <2>1, <2>2, FS_AddElement
    <2>4. QED
        BY <2>1, <2>2, <2>3
<1>6. SUFFICES ASSUME ~direct', ~torn', NEW s \in Inventory!Statuses
               PROVE  Balanced(s)'
    BY <1>4, Balance
<1>7. /\ Out(s) \in Nat /\ In(s) \in Nat /\ Cardinality(From(s)) \in Nat /\ Cardinality(To(s)) \in Nat
      /\ Out(s)' = Out(s) /\ In(s)' = In(s)
    BY <1>1, CountsAreNumbers DEF Out, In, Inventory!Total
<1>8. Balanced(s)
    BY <1>1, <1>6, Balance DEF HistoryInv
<1>9. QED
    BY <1>1, <1>2, <1>5, <1>6, <1>7, <1>8 DEF Balanced

(* An event that is added is no longer to be added. *)
LEMMA NoteKeepsHistory ==
    ASSUME HistoryInv, NEW d \in Desks, Inventory!Note(d)
    PROVE  IsFiniteSet(Inventory!Noting)' /\ Inventory!HistoryExplainsStatus'
<1>1. /\ Inventory!TypeOK /\ tpc[d] = "note" /\ trail' = [trail EXCEPT ![<<seen[d], target[d]>>] = @ + 1]
      /\ UNCHANGED <<unit, direct, torn>>
      /\ tpc' = [tpc EXCEPT ![d] = "idle"]
      /\ seen' = [seen EXCEPT ![d] = "available"] /\ target' = [target EXCEPT ![d] = "available"]
      /\ seen[d] \in Inventory!Statuses /\ target[d] \in Inventory!Statuses
    BY DEF HistoryInv, UnitsInv, Inventory!Note, Inventory!Return, Inventory!TypeOK
<1>2. Inventory!Noting' = Inventory!Noting \ {d} /\ d \in Inventory!Noting
    BY <1>1 DEF Inventory!TypeOK, Inventory!Noting
<1>3. IsFiniteSet(Inventory!Noting)'
    BY <1>2, FS_RemoveElement DEF HistoryInv
<1>4. ASSUME NEW s \in Inventory!Statuses
      PROVE  /\ Cardinality(From(s))' = Cardinality(From(s)) - (IF seen[d] = s THEN 1 ELSE 0)
             /\ Cardinality(To(s))' = Cardinality(To(s)) - (IF target[d] = s THEN 1 ELSE 0)
    <2>1. /\ From(s)' = From(s) \ {d} /\ To(s)' = To(s) \ {d}
          /\ d \in From(s) <=> seen[d] = s
          /\ d \in To(s) <=> target[d] = s
        BY <1>1, <1>2 DEF From, To, Inventory!TypeOK, Inventory!Noting
    <2>2. /\ IsFiniteSet(From(s)) /\ Cardinality(From(s)) \in Nat
          /\ IsFiniteSet(To(s)) /\ Cardinality(To(s)) \in Nat
        BY CountsAreNumbers
    <2>3. /\ Cardinality(From(s) \ {d}) = (IF d \in From(s) THEN Cardinality(From(s)) - 1 ELSE Cardinality(From(s)))
          /\ Cardinality(To(s) \ {d}) = (IF d \in To(s) THEN Cardinality(To(s)) - 1 ELSE Cardinality(To(s)))
        BY <2>2, FS_RemoveElement
    <2>4. QED
        BY <2>1, <2>2, <2>3
<1>5. SUFFICES ASSUME ~direct', ~torn', NEW s \in Inventory!Statuses
               PROVE  Balanced(s)'
    BY <1>3, Balance
<1>6. Out(s) \in Nat /\ In(s) \in Nat /\ Cardinality(From(s)) \in Nat /\ Cardinality(To(s)) \in Nat
    BY CountsAreNumbers
<1>7. Out(s)' = Out(s) + (IF seen[d] = s THEN 1 ELSE 0) /\ In(s)' = In(s) + (IF target[d] = s THEN 1 ELSE 0)
    BY <1>1, TrailGrows DEF Out, In, Inventory!Total
<1>8. Balanced(s)
    BY <1>1, <1>5, Balance DEF HistoryInv
<1>9. QED
    BY <1>1, <1>4, <1>5, <1>6, <1>7, <1>8 DEF Balanced

(* Every step keeps that. *)
LEMMA HistoryNext == HistoryInv /\ [Next]_sceneVars => HistoryInv'
<1> SUFFICES ASSUME HistoryInv, [Next]_sceneVars
             PROVE  HistoryInv'
    OBVIOUS
<1>0. UnitsInv /\ UnitsInv' /\ Inventory!TypeOK /\ (~direct => disturbed = {})
    BY UnitsNext DEF HistoryInv, UnitsInv
<1>1. SUFFICES (~direct' => disturbed' = {}) /\ IsFiniteSet(Inventory!Noting)' /\ Inventory!HistoryExplainsStatus'
    BY <1>0 DEF HistoryInv
<1>2. CASE Inventory!Next
    <2>1. ASSUME NEW d \in Desks, NEW to \in Inventory!Statuses, Inventory!Read(d, to)
          PROVE  (~direct' => disturbed' = {}) /\ IsFiniteSet(Inventory!Noting)' /\ Inventory!HistoryExplainsStatus'
        <3>1. /\ UNCHANGED <<unit, trail, direct, disturbed, torn>> /\ Inventory!Noting' = Inventory!Noting
              /\ \A c \in Inventory!Noting : seen'[c] = seen[c] /\ target'[c] = target[c]
            BY <1>0, <2>1 DEF Inventory!Read, Inventory!TypeOK, Inventory!Noting
        <3>2. QED
            BY <1>0, <3>1, BalanceStays
    <2>2. ASSUME NEW d \in Desks, Inventory!Update(d)
          PROVE  (~direct' => disturbed' = {}) /\ IsFiniteSet(Inventory!Noting)' /\ Inventory!HistoryExplainsStatus'
        <3>1. UNCHANGED <<direct, disturbed>>
            BY <2>2 DEF Inventory!Update
        <3>2. QED
            BY <1>0, <2>2, <3>1, UpdateKeepsHistory
    <2>3. ASSUME NEW d \in Desks, Inventory!Note(d)
          PROVE  (~direct' => disturbed' = {}) /\ IsFiniteSet(Inventory!Noting)' /\ Inventory!HistoryExplainsStatus'
        <3>1. UNCHANGED direct /\ disturbed' = disturbed \ {d}
            BY <2>3 DEF Inventory!Note, Inventory!Return
        <3>2. QED
            BY <1>0, <2>3, <3>1, NoteKeepsHistory
    <2>4. ASSUME NEW d \in Desks, Inventory!UpdateThrows(d) \/ (Inventory!Stop(d) /\ tpc[d] # "note")
          PROVE  (~direct' => disturbed' = {}) /\ IsFiniteSet(Inventory!Noting)' /\ Inventory!HistoryExplainsStatus'
        <3>1. /\ UNCHANGED <<unit, trail, direct, torn>> /\ disturbed' = disturbed \ {d}
              /\ Inventory!Noting' = Inventory!Noting
              /\ \A c \in Inventory!Noting : seen'[c] = seen[c] /\ target'[c] = target[c]
            BY <1>0, <2>4 DEF Inventory!UpdateThrows, Inventory!Stop, Inventory!Return, Inventory!TypeOK, Inventory!Noting
        <3>2. QED
            BY <1>0, <3>1, BalanceStays
    <2>5. ASSUME NEW d \in Desks, Inventory!Stop(d), tpc[d] = "note"
          PROVE  (~direct' => disturbed' = {}) /\ IsFiniteSet(Inventory!Noting)' /\ Inventory!HistoryExplainsStatus'
        <3>1. torn' /\ UNCHANGED direct /\ disturbed' = disturbed \ {d} /\ Inventory!Noting' = Inventory!Noting \ {d}
            BY <1>0, <2>5 DEF Inventory!Stop, Inventory!Return, Inventory!TypeOK, Inventory!Noting
        <3>2. QED
            BY <1>0, <3>1, FS_RemoveElement DEF HistoryInv, Inventory!HistoryExplainsStatus
    <2>6. ASSUME NEW s, Inventory!WriteDirectly(s)
          PROVE  (~direct' => disturbed' = {}) /\ IsFiniteSet(Inventory!Noting)' /\ Inventory!HistoryExplainsStatus'
        <3>1. direct' /\ Inventory!Noting' = Inventory!Noting
            BY <2>6 DEF Inventory!WriteDirectly, Inventory!deskVars, Inventory!Noting
        <3>2. QED
            BY <3>1 DEF HistoryInv, Inventory!HistoryExplainsStatus
    <2>7. QED
        BY <1>2, <2>1, <2>2, <2>3, <2>4, <2>5, <2>6
        DEF Inventory!Next, Inventory!DeskStep, Inventory!Occupy, Inventory!MoveOut, Inventory!PatchUnit
<1>3. CASE UNCHANGED inventoryVars
    <2>1. UNCHANGED <<unit, trail, direct, torn, disturbed, seen, target, tpc>>
        BY <1>3 DEF inventoryVars
    <2>2. Inventory!Noting' = Inventory!Noting
        BY <2>1 DEF Inventory!Noting
    <2>3. QED
        BY <1>0, <2>1, <2>2, BalanceStays
<1>4. QED
    BY <1>2, <1>3 DEF Next, sceneVars

(***************************************************************************)
(* The events of a unit, with those still to be added, lead from           *)
(* "available" to its status, for any number of transitions in any order,  *)
(* as long as nobody writes the status directly or stops between update    *)
(* and event.                                                              *)
(***************************************************************************)
THEOREM HistoryExplainsStatusHolds == Spec => []HistoryExplainsStatus
<1>1. Init => HistoryInv
    <2> SUFFICES ASSUME Inventory!Init
                 PROVE  HistoryInv
        BY DEF Init
    <2>1. UnitsInv
        BY UnitsInit
    <2>2. Inventory!Noting = {} /\ disturbed = {} /\ unit = "available"
        BY DEF Inventory!Init, Inventory!Noting
    <2>3. \A s : From(s) = {} /\ To(s) = {}
        BY <2>2 DEF From, To
    <2>4. \A s : Cardinality(From(s)) = 0 /\ Cardinality(To(s)) = 0
        BY <2>3, FS_EmptySet
    <2>5. ASSUME NEW s \in Inventory!Statuses
          PROVE  Out(s) = 0 /\ In(s) = 0
        <3>1. \A t \in Inventory!Statuses : trail[<<s, t>>] = 0 /\ trail[<<t, s>>] = 0
            BY DEF Inventory!Init
        <3>2. QED
            BY <3>1 DEF Out, In, Inventory!Total, Inventory!Statuses
    <2>6. Inventory!HistoryExplainsStatus
        BY <2>2, <2>4, <2>5, Balance DEF Balanced
    <2>7. QED
        BY <2>1, <2>2, <2>6, FS_EmptySet DEF HistoryInv
<1>2. HistoryInv => HistoryExplainsStatus
    BY DEF HistoryInv, HistoryExplainsStatus
<1>3. QED
    BY <1>1, <1>2, HistoryNext, PTL DEF Spec
-----------------------------------------------------------------------------
Spoiled == touched \cup crossed \cup cut

(* What a request is about goes with its position. *)
SubjectFits ==
    \A k \in Clerks :
        /\ kpc[k] = "idle" => subject[k] = Nothing
        /\ kpc[k] \in {"task", "resolve"} => subject[k] \in Incidents
        /\ kpc[k] \in {"complete", "items"} => subject[k] \in Inspections

Creates(k, i) == kpc[k] = "task" /\ subject[k] = i

(* An incident has its task, or one request that will create it. *)
TaskFollows ==
    \A i \in Incidents \ Spoiled :
        /\ incident[i] = "none" => made[i] = 0 /\ \A k \in Clerks : subject[k] # i
        /\ incident[i] # "none" =>
               made[i] = (IF \E k \in Clerks : Creates(k, i) THEN 0 ELSE 1)
        /\ \A k, c \in Clerks : Creates(k, i) /\ Creates(c, i) => k = c

(* An incident that is resolved, or about to be, has no open task and gets none. *)
ResolvedStays ==
    \A i \in Incidents \ Spoiled :
        incident[i] = "resolved" \/ (\E k \in Clerks : kpc[k] = "resolve" /\ subject[k] = i) =>
            /\ open[i] = 0
            /\ incident[i] # "none" /\ \A k \in Clerks : ~Creates(k, i)

(* One request at most is at an inspection, and lacks the tasks it has still to create. *)
ItemsFollow ==
    \A n \in Inspections \ Spoiled :
        /\ \A k, c \in Clerks : subject[k] = n /\ subject[c] = n => k = c
        /\ inspection[n] = "none" => \A k \in Clerks : subject[k] # n
        /\ inspection[n] # "completed" =>
               made[n] = 0 /\ findings[n] = 0 /\ \A k \in Clerks : subject[k] = n => kpc[k] = "complete"
        /\ inspection[n] = "completed" =>
               /\ \A k \in Clerks : subject[k] = n => kpc[k] = "items" /\ made[n] + left[k] = findings[n]
               /\ (\A k \in Clerks : subject[k] # n) => made[n] = findings[n] /\ n \in report

TasksInv == Tasks!TypeOK /\ SubjectFits /\ TaskFollows /\ ResolvedStays /\ ItemsFollow

LEMMA TasksInit == Tasks!Init => TasksInv
<1> SUFFICES ASSUME Tasks!Init
             PROVE  TasksInv
    OBVIOUS
<1> USE SubjectsAssumption, TaskBoundsAssumption DEF Tasks!Init, Tasks!Subjects
<1>1. Tasks!TypeOK
    <2>1. {touched, crossed, cut} \subseteq SUBSET Tasks!Subjects
        OBVIOUS
    <2>2. inspection \in [Inspections -> {"none", "pending", "completed"}]
        OBVIOUS
    <2>3. QED
        BY <2>1, <2>2 DEF Tasks!TypeOK
<1>2. SubjectFits
    BY DEF SubjectFits
<1>3. TaskFollows /\ ResolvedStays
    BY DEF TaskFollows, ResolvedStays, Creates
<1>4. ItemsFollow
    BY DEF ItemsFollow
<1>5. QED
    BY <1>1, <1>2, <1>3, <1>4 DEF TasksInv

LEMMA ClerkKeepsTasks ==
    ASSUME TasksInv, NEW k \in Clerks, Tasks!ClerkStep(k)
    PROVE  TasksInv'
<1> USE SubjectsAssumption, TaskBoundsAssumption
    DEF Tasks!Happens, Tasks!Begin, Tasks!Return, Tasks!Subjects, Tasks!clerkVars, Tasks!taskHistory
<1>0. Tasks!TypeOK /\ SubjectFits /\ TaskFollows /\ ResolvedStays /\ ItemsFollow
    BY DEF TasksInv
<1>1. ASSUME NEW i \in Incidents, Tasks!CreateIncident(k, i)
      PROVE  TasksInv'
    <2>1. Tasks!TypeOK'
        BY <1>0, <1>1 DEF Tasks!CreateIncident, Tasks!TypeOK, SubjectFits
    <2>2. SubjectFits'
        BY <1>0, <1>1 DEF Tasks!CreateIncident, Tasks!TypeOK, SubjectFits
    <2>3. TaskFollows'
        BY <1>0, <1>1 DEF Tasks!CreateIncident, Tasks!TypeOK, SubjectFits, TaskFollows, Creates, Spoiled
    <2>4. ResolvedStays'
        BY <1>0, <1>1 DEF Tasks!CreateIncident, Tasks!TypeOK, SubjectFits, ResolvedStays, TaskFollows, Creates, Spoiled
    <2>5. ItemsFollow'
        BY <1>0, <1>1 DEF Tasks!CreateIncident, Tasks!TypeOK, SubjectFits, ItemsFollow, Spoiled
    <2>6. QED
        BY <2>1, <2>2, <2>3, <2>4, <2>5 DEF TasksInv
<1>2. ASSUME NEW i \in Incidents, Tasks!CloseTasks(k, i)
      PROVE  TasksInv'
    <2>1. Tasks!TypeOK'
        BY <1>0, <1>2 DEF Tasks!CloseTasks, Tasks!Meets, Tasks!TypeOK, SubjectFits
    <2>2. SubjectFits'
        BY <1>0, <1>2 DEF Tasks!CloseTasks, Tasks!Meets, Tasks!TypeOK, SubjectFits
    <2>3. TaskFollows'
        BY <1>0, <1>2 DEF Tasks!CloseTasks, Tasks!Meets, Tasks!TypeOK, SubjectFits, TaskFollows, Creates, Spoiled
    <2>4. ResolvedStays'
        BY <1>0, <1>2 DEF Tasks!CloseTasks, Tasks!Meets, Tasks!TypeOK, SubjectFits, ResolvedStays, TaskFollows, Creates, Spoiled
    <2>5. ItemsFollow'
        BY <1>0, <1>2 DEF Tasks!CloseTasks, Tasks!Meets, Tasks!TypeOK, SubjectFits, ItemsFollow, Spoiled
    <2>6. QED
        BY <2>1, <2>2, <2>3, <2>4, <2>5 DEF TasksInv
<1>3. ASSUME NEW n \in Inspections, Tasks!FindInspection(k, n)
      PROVE  TasksInv'
    <2>1. Tasks!TypeOK'
        BY <1>0, <1>3 DEF Tasks!FindInspection, Tasks!Meets, Tasks!TypeOK, SubjectFits
    <2>2. SubjectFits'
        BY <1>0, <1>3 DEF Tasks!FindInspection, Tasks!Meets, Tasks!TypeOK, SubjectFits
    <2>3. TaskFollows'
        BY <1>0, <1>3 DEF Tasks!FindInspection, Tasks!Meets, Tasks!TypeOK, SubjectFits, TaskFollows, Creates, Spoiled
    <2>4. ResolvedStays'
        BY <1>0, <1>3 DEF Tasks!FindInspection, Tasks!Meets, Tasks!TypeOK, SubjectFits, ResolvedStays, TaskFollows, Creates, Spoiled
    <2>5. ItemsFollow'
        BY <1>0, <1>3 DEF Tasks!FindInspection, Tasks!Meets, Tasks!TypeOK, SubjectFits, ItemsFollow, Spoiled
    <2>6. QED
        BY <2>1, <2>2, <2>3, <2>4, <2>5 DEF TasksInv
<1>4. ASSUME NEW n \in Inspections, NEW f \in 0..MaxFindings, Tasks!CreateInspection(k, n, f)
      PROVE  TasksInv'
    <2>1. Tasks!TypeOK'
        BY <1>0, <1>4 DEF Tasks!CreateInspection, Tasks!WriteResult, Tasks!TypeOK, SubjectFits
    <2>2. SubjectFits'
        BY <1>0, <1>4 DEF Tasks!CreateInspection, Tasks!WriteResult, Tasks!TypeOK, SubjectFits
    <2>3. TaskFollows'
        BY <1>0, <1>4 DEF Tasks!CreateInspection, Tasks!WriteResult, Tasks!TypeOK, SubjectFits, TaskFollows, Creates, Spoiled
    <2>4. ResolvedStays'
        BY <1>0, <1>4 DEF Tasks!CreateInspection, Tasks!WriteResult, Tasks!TypeOK, SubjectFits, ResolvedStays, TaskFollows, Creates, Spoiled
    <2>5. ItemsFollow'
        BY <1>0, <1>4 DEF Tasks!CreateInspection, Tasks!WriteResult, Tasks!TypeOK, SubjectFits, ItemsFollow, Spoiled
    <2>6. QED
        BY <2>1, <2>2, <2>3, <2>4, <2>5 DEF TasksInv
<1>5. ASSUME NEW f \in 0..MaxFindings, Tasks!CompleteInspection(k, f)
      PROVE  TasksInv'
    <2>1. Tasks!TypeOK'
        BY <1>0, <1>5 DEF Tasks!CompleteInspection, Tasks!WriteResult, Tasks!TypeOK, SubjectFits
    <2>2. SubjectFits'
        BY <1>0, <1>5 DEF Tasks!CompleteInspection, Tasks!WriteResult, Tasks!TypeOK, SubjectFits
    <2>3. TaskFollows'
        BY <1>0, <1>5 DEF Tasks!CompleteInspection, Tasks!WriteResult, Tasks!TypeOK, SubjectFits, TaskFollows, Creates, Spoiled
    <2>4. ResolvedStays'
        BY <1>0, <1>5 DEF Tasks!CompleteInspection, Tasks!WriteResult, Tasks!TypeOK, SubjectFits, ResolvedStays, TaskFollows, Creates, Spoiled
    <2>5. ItemsFollow'
        BY <1>0, <1>5 DEF Tasks!CompleteInspection, Tasks!WriteResult, Tasks!TypeOK, SubjectFits, ItemsFollow, Spoiled
    <2>6. QED
        BY <2>1, <2>2, <2>3, <2>4, <2>5 DEF TasksInv
<1>6. CASE Tasks!CreateTask(k)
    <2>1. Tasks!TypeOK'
        BY <1>0, <1>6 DEF Tasks!CreateTask, Tasks!AddTask, Tasks!TypeOK, SubjectFits
    <2>2. SubjectFits'
        BY <1>0, <1>6 DEF Tasks!CreateTask, Tasks!AddTask, Tasks!TypeOK, SubjectFits
    <2>3. TaskFollows'
        BY <1>0, <1>6 DEF Tasks!CreateTask, Tasks!AddTask, Tasks!TypeOK, SubjectFits, TaskFollows, Creates, Spoiled
    <2>4. ResolvedStays'
        BY <1>0, <1>6 DEF Tasks!CreateTask, Tasks!AddTask, Tasks!TypeOK, SubjectFits, ResolvedStays, TaskFollows, Creates, Spoiled
    <2>5. ItemsFollow'
        BY <1>0, <1>6 DEF Tasks!CreateTask, Tasks!AddTask, Tasks!TypeOK, SubjectFits, ItemsFollow, Spoiled
    <2>6. QED
        BY <2>1, <2>2, <2>3, <2>4, <2>5 DEF TasksInv
<1>7. CASE Tasks!MarkResolved(k)
    <2>1. Tasks!TypeOK'
        BY <1>0, <1>7 DEF Tasks!MarkResolved, Tasks!TypeOK, SubjectFits
    <2>2. SubjectFits'
        BY <1>0, <1>7 DEF Tasks!MarkResolved, Tasks!TypeOK, SubjectFits
    <2>3. TaskFollows'
        BY <1>0, <1>7 DEF Tasks!MarkResolved, Tasks!TypeOK, SubjectFits, TaskFollows, Creates, Spoiled
    <2>4. ResolvedStays'
        BY <1>0, <1>7 DEF Tasks!MarkResolved, Tasks!TypeOK, SubjectFits, ResolvedStays, TaskFollows, Creates, Spoiled
    <2>5. ItemsFollow'
        BY <1>0, <1>7 DEF Tasks!MarkResolved, Tasks!TypeOK, SubjectFits, ItemsFollow, Spoiled
    <2>6. QED
        BY <2>1, <2>2, <2>3, <2>4, <2>5 DEF TasksInv
<1>8. CASE Tasks!CreateTaskForItem(k)
    <2>1. Tasks!TypeOK'
        BY <1>0, <1>8 DEF Tasks!CreateTaskForItem, Tasks!AddTask, Tasks!TypeOK, SubjectFits
    <2>2. SubjectFits'
        BY <1>0, <1>8 DEF Tasks!CreateTaskForItem, Tasks!AddTask, Tasks!TypeOK, SubjectFits
    <2>3. TaskFollows'
        BY <1>0, <1>8 DEF Tasks!CreateTaskForItem, Tasks!AddTask, Tasks!TypeOK, SubjectFits, TaskFollows, Creates, Spoiled
    <2>4. ResolvedStays'
        BY <1>0, <1>8 DEF Tasks!CreateTaskForItem, Tasks!AddTask, Tasks!TypeOK, SubjectFits, ResolvedStays, TaskFollows, Creates, Spoiled
    <2>5. ItemsFollow'
        <3>1. /\ UNCHANGED <<kpc, subject, inspection, findings, report, touched, crossed, cut>>
              /\ kpc[k] = "items" /\ subject[k] \in Inspections
              /\ made' = [made EXCEPT ![subject[k]] = @ + 1] /\ left' = [left EXCEPT ![k] = @ - 1]
            BY <1>0, <1>8 DEF Tasks!CreateTaskForItem, Tasks!AddTask, SubjectFits
        <3>2. SUFFICES ASSUME NEW n \in Inspections \ Spoiled
                       PROVE  /\ \A c \in Clerks : subject[c] = n => made'[n] + left'[c] = made[n] + left[c]
                              /\ made'[n] # made[n] => subject[k] = n
            BY <1>0, <3>1 DEF ItemsFollow, Spoiled
        <3>3. made[n] \in Nat /\ \A c \in Clerks : left[c] \in Int
            BY <1>0 DEF Tasks!TypeOK
        <3>4. made'[n] = (IF subject[k] = n THEN made[n] + 1 ELSE made[n])
            BY <1>0, <3>1 DEF Tasks!TypeOK
        <3>5. \A c \in Clerks : left'[c] = (IF c = k THEN left[k] - 1 ELSE left[c])
            BY <1>0, <3>1 DEF Tasks!TypeOK
        <3>6. \A c \in Clerks : subject[k] = n /\ subject[c] = n => c = k
            BY <1>0 DEF ItemsFollow
        <3>7. QED
            BY <3>3, <3>4, <3>5, <3>6
    <2>6. QED
        BY <2>1, <2>2, <2>3, <2>4, <2>5 DEF TasksInv
<1>9. CASE Tasks!StoreReport(k)
    <2>1. Tasks!TypeOK'
        BY <1>0, <1>9 DEF Tasks!StoreReport, Tasks!TypeOK, SubjectFits
    <2>2. SubjectFits'
        BY <1>0, <1>9 DEF Tasks!StoreReport, Tasks!TypeOK, SubjectFits
    <2>3. TaskFollows'
        BY <1>0, <1>9 DEF Tasks!StoreReport, Tasks!TypeOK, SubjectFits, TaskFollows, Creates, Spoiled
    <2>4. ResolvedStays'
        BY <1>0, <1>9 DEF Tasks!StoreReport, Tasks!TypeOK, SubjectFits, ResolvedStays, TaskFollows, Creates, Spoiled
    <2>5. ItemsFollow'
        BY <1>0, <1>9 DEF Tasks!StoreReport, Tasks!TypeOK, SubjectFits, ItemsFollow, Spoiled
    <2>6. QED
        BY <2>1, <2>2, <2>3, <2>4, <2>5 DEF TasksInv
<1>10. CASE Tasks!Stop(k)
    <2>1. Tasks!TypeOK'
        BY <1>0, <1>10 DEF Tasks!Stop, Tasks!TypeOK, SubjectFits
    <2>2. SubjectFits'
        BY <1>0, <1>10 DEF Tasks!Stop, Tasks!TypeOK, SubjectFits
    <2>3. TaskFollows'
        BY <1>0, <1>10 DEF Tasks!Stop, Tasks!TypeOK, SubjectFits, TaskFollows, Creates, Spoiled
    <2>4. ResolvedStays'
        BY <1>0, <1>10 DEF Tasks!Stop, Tasks!TypeOK, SubjectFits, ResolvedStays, TaskFollows, Creates, Spoiled
    <2>5. ItemsFollow'
        BY <1>0, <1>10 DEF Tasks!Stop, Tasks!TypeOK, SubjectFits, ItemsFollow, Spoiled
    <2>6. QED
        BY <2>1, <2>2, <2>3, <2>4, <2>5 DEF TasksInv
<1>11. QED
    BY <1>1, <1>2, <1>3, <1>4, <1>5, <1>6, <1>7, <1>8, <1>9, <1>10 DEF Tasks!ClerkStep

LEMMA HandKeepsTasks ==
    ASSUME TasksInv, (\E i \in Incidents : Tasks!Reopen(i)) \/ (\E x \in Tasks!Subjects : Tasks!UpdateTask(x))
    PROVE  TasksInv'
<1> USE SubjectsAssumption, TaskBoundsAssumption
    DEF Tasks!Happens, Tasks!Subjects, Tasks!clerkVars, Tasks!taskHistory
<1>0. Tasks!TypeOK /\ SubjectFits /\ TaskFollows /\ ResolvedStays /\ ItemsFollow
    BY DEF TasksInv
<1>1. ASSUME NEW i \in Incidents, Tasks!Reopen(i)
      PROVE  TasksInv'
    BY <1>0, <1>1
    DEF Tasks!Reopen, Tasks!TypeOK, TasksInv, SubjectFits, TaskFollows, ResolvedStays, ItemsFollow, Creates, Spoiled
<1>2. ASSUME NEW x \in Tasks!Subjects, Tasks!UpdateTask(x)
      PROVE  TasksInv'
    BY <1>0, <1>2
    DEF Tasks!UpdateTask, Tasks!TypeOK, TasksInv, SubjectFits, TaskFollows, ResolvedStays, ItemsFollow, Creates, Spoiled
<1>3. QED
    BY <1>1, <1>2

LEMMA TasksNext == TasksInv /\ [Next]_sceneVars => TasksInv'
<1> SUFFICES ASSUME TasksInv, [Next]_sceneVars
             PROVE  TasksInv'
    OBVIOUS
<1>1. CASE Tasks!Next
    BY <1>1, ClerkKeepsTasks, HandKeepsTasks DEF Tasks!Next
<1>2. CASE UNCHANGED tasksVars
    BY <1>2
    DEF tasksVars, TasksInv, Tasks!TypeOK, SubjectFits, TaskFollows, ResolvedStays, ItemsFollow, Creates, Spoiled
<1>3. QED
    BY <1>1, <1>2 DEF Next, sceneVars

LEMMA TasksAlways == Spec => []TasksInv
<1>1. Init => TasksInv
    BY TasksInit DEF Init
<1>2. QED
    BY <1>1, TasksNext, PTL DEF Spec

LEMMA InvGivesTasksAgree == TasksInv => TasksAgree
<1> SUFFICES ASSUME TasksInv
             PROVE  /\ \A i \in Incidents \ Spoiled : (\A k \in Clerks : subject[k] # i) =>
                           /\ made[i] = (IF incident[i] = "none" THEN 0 ELSE 1)
                           /\ incident[i] = "resolved" => open[i] = 0
                    /\ \A n \in Inspections \ Spoiled : (\A k \in Clerks : subject[k] # n) =>
                           /\ made[n] = findings[n]
                           /\ inspection[n] = "completed" => n \in report
    BY DEF TasksAgree, Tasks!TasksAgree, Tasks!Undisturbed, Spoiled
<1>1. TaskFollows /\ ResolvedStays /\ ItemsFollow
    BY DEF TasksInv
<1>2. QED
    BY <1>1 DEF TasksInv, Tasks!TypeOK, TaskFollows, ResolvedStays, ItemsFollow, Creates

(***************************************************************************)
(* Incidents and inspections that nobody is at have the tasks that they    *)
(* should have, unless a task was changed by hand, an incident was         *)
(* resolved before its task was there, an inspection was completed twice,  *)
(* or a request stopped; for any number of requests.                       *)
(***************************************************************************)
THEOREM TasksAgreeHolds == Spec => []TasksAgree
BY TasksAlways, InvGivesTasksAgree, PTL

-----------------------------------------------------------------------------
(* An image edit that nobody has overtaken has read the images as they are. *)
CopiesAreFresh ==
    ~mixed => /\ images = edited
              /\ \A e \in Editors : epc[e] \in {"add", "remove"} => copy[e] = images

(* Before the first overlap: one creation at most has room under the limit, and what was read is no larger. *)
RoomIsLeft ==
    ~loose => /\ units <= limit
              /\ \A e \in Editors : epc[e] = "count" => allowed[e] <= limit
              /\ \A e \in Editors : epc[e] = "create" => units + 1 <= limit
              /\ \A e, f \in Editors : epc[e] = "create" /\ epc[f] = "create" => e = f

(* A new image is an image; a new version is not there yet, is made by one request, and follows a document. *)
BringsFit ==
    \A e \in Editors :
        /\ epc[e] = "add" => about[e] \in Images
        /\ epc[e] = "version" =>
               /\ about[e] \in Documents /\ docVersion[about[e]] = 0
               /\ latest[e] \in Documents /\ docVersion[latest[e]] > 0
               /\ \A f \in Editors : about[f] = about[e] => f = e

(* Before the first fork, documents form one line, and who makes a version has seen its end. *)
OneLine ==
    ~forked => /\ \A c, d \in Documents : docVersion[d] > 1 /\ docVersion[c] = docVersion[d] => c = d
               /\ \A d \in Documents : docVersion[d] > 1 =>
                      previous[d] \in Documents /\ docVersion[previous[d]] = docVersion[d] - 1
               /\ \A e \in Editors : epc[e] = "version" =>
                      \A d \in Documents : docVersion[d] <= docVersion[latest[e]]

ShelfInv == Shelf!TypeOK /\ CopiesAreFresh /\ RoomIsLeft /\ BringsFit /\ OneLine

LEMMA LimitsAreNumbers ==
    ASSUME Shelf!TypeOK
    PROVE  units \in Nat /\ limit \in Nat /\ \A e \in Editors : allowed[e] \in Nat
<1>1. \A l \in Limits : l \in Nat
    BY LimitsAssumption, Zenon
<1>2. units \in Nat /\ limit \in Limits /\ \A e \in Editors : allowed[e] \in Limits \/ allowed[e] = 0
    BY DEF Shelf!TypeOK
<1>3. limit \in Nat
    BY <1>1, <1>2, Zenon
<1>4. ASSUME NEW e \in Editors
      PROVE  allowed[e] \in Nat
    <2>1. CASE allowed[e] \in Limits
        BY <1>1, <2>1, Zenon
    <2>2. CASE allowed[e] = 0
        BY <2>2
    <2>3. QED
        BY <1>2, <2>1, <2>2
<1>5. QED
    BY <1>2, <1>3, <1>4

LEMMA ShelfInit == Shelf!Init => ShelfInv
<1> SUFFICES ASSUME Shelf!Init
             PROVE  ShelfInv
    OBVIOUS
<1> USE LimitsAssumption, MaxCatalogEventsAssumption DEF Shelf!Init
<1>1. Shelf!TypeOK
    <2>1. catalogEvents \in 0..MaxCatalogEvents /\ units \in Nat
        OBVIOUS
    <2>2. limit \in Limits
        OBVIOUS
    <2>3. QED
        BY <2>1, <2>2 DEF Shelf!TypeOK
<1>2. CopiesAreFresh /\ BringsFit /\ OneLine
    BY DEF CopiesAreFresh, BringsFit, OneLine
<1>3. RoomIsLeft
    <2>1. limit \in Nat /\ units = 0 /\ \A e \in Editors : epc[e] = "idle"
        BY <1>1, LimitsAreNumbers
    <2>2. QED
        BY <2>1 DEF RoomIsLeft
<1>4. QED
    BY <1>1, <1>2, <1>3 DEF ShelfInv

LEMMA EditorKeepsShelf ==
    ASSUME ShelfInv, NEW e \in Editors, Shelf!EditorStep(e)
    PROVE  ShelfInv'
<1> USE LimitsAssumption, DocumentsAssumption, MaxCatalogEventsAssumption
    DEF Shelf!Happens, Shelf!Return, Shelf!Begin, Shelf!Others, Shelf!Fresh, Shelf!Stored,
        Shelf!listingVars, Shelf!planVars, Shelf!documentVars
<1>0. Shelf!TypeOK /\ CopiesAreFresh /\ RoomIsLeft /\ BringsFit /\ OneLine
    BY DEF ShelfInv
<1>1. ASSUME NEW i \in Images, NEW edit \in {"add", "remove"}, Shelf!FindListing(e, i, edit)
      PROVE  ShelfInv'
    <2>1. Shelf!TypeOK'
        BY <1>0, <1>1 DEF Shelf!FindListing, Shelf!TypeOK
    <2>2. CopiesAreFresh'
        BY <1>0, <1>1 DEF Shelf!FindListing, Shelf!TypeOK, CopiesAreFresh
    <2>3. RoomIsLeft'
        BY <1>0, <1>1 DEF Shelf!FindListing, Shelf!TypeOK, RoomIsLeft
    <2>4. BringsFit'
        BY <1>0, <1>1 DEF Shelf!FindListing, Shelf!TypeOK, BringsFit
    <2>5. OneLine'
        BY <1>0, <1>1 DEF Shelf!FindListing, Shelf!TypeOK, OneLine, BringsFit
    <2>6. QED
        BY <2>1, <2>2, <2>3, <2>4, <2>5 DEF ShelfInv
<1>2. ASSUME NEW d \in Documents, NEW named \in Documents, Shelf!FindLatest(e, d, named)
      PROVE  ShelfInv'
    <2>1. Shelf!TypeOK'
        BY <1>0, <1>2 DEF Shelf!FindLatest, Shelf!TypeOK
    <2>2. CopiesAreFresh'
        BY <1>0, <1>2 DEF Shelf!FindLatest, Shelf!TypeOK, CopiesAreFresh
    <2>3. RoomIsLeft'
        BY <1>0, <1>2 DEF Shelf!FindLatest, Shelf!TypeOK, RoomIsLeft
    <2>4. BringsFit'
        BY <1>0, <1>2 DEF Shelf!FindLatest, Shelf!TypeOK, BringsFit
    <2>5. OneLine'
        BY <1>0, <1>2 DEF Shelf!FindLatest, Shelf!TypeOK, OneLine, BringsFit
    <2>6. QED
        BY <2>1, <2>2, <2>3, <2>4, <2>5 DEF ShelfInv
<1>3. CASE Shelf!WriteImages(e)
    <2>1. Shelf!TypeOK'
        BY <1>0, <1>3 DEF Shelf!WriteImages, Shelf!TypeOK, BringsFit, Shelf!Edit
    <2>2. CopiesAreFresh'
        BY <1>0, <1>3 DEF Shelf!WriteImages, Shelf!TypeOK, CopiesAreFresh, Shelf!Edit
    <2>3. RoomIsLeft'
        BY <1>0, <1>3 DEF Shelf!WriteImages, Shelf!TypeOK, RoomIsLeft, Shelf!Edit
    <2>4. BringsFit'
        BY <1>0, <1>3 DEF Shelf!WriteImages, Shelf!TypeOK, BringsFit, Shelf!Edit
    <2>5. OneLine'
        BY <1>0, <1>3 DEF Shelf!WriteImages, Shelf!TypeOK, OneLine, BringsFit, Shelf!Edit
    <2>6. QED
        BY <2>1, <2>2, <2>3, <2>4, <2>5 DEF ShelfInv
<1>4. CASE Shelf!ReadPlan(e)
    <2>1. Shelf!TypeOK'
        BY <1>0, <1>4 DEF Shelf!ReadPlan, Shelf!TypeOK
    <2>2. CopiesAreFresh'
        BY <1>0, <1>4 DEF Shelf!ReadPlan, Shelf!TypeOK, CopiesAreFresh
    <2>3. RoomIsLeft'
        BY <1>0, <1>4 DEF Shelf!ReadPlan, Shelf!TypeOK, RoomIsLeft
    <2>4. BringsFit'
        BY <1>0, <1>4 DEF Shelf!ReadPlan, Shelf!TypeOK, BringsFit
    <2>5. OneLine'
        BY <1>0, <1>4 DEF Shelf!ReadPlan, Shelf!TypeOK, OneLine, BringsFit
    <2>6. QED
        BY <2>1, <2>2, <2>3, <2>4, <2>5 DEF ShelfInv
<1>5. CASE Shelf!CountUnits(e)
    <2>1. Shelf!TypeOK'
        BY <1>0, <1>5 DEF Shelf!CountUnits, Shelf!TypeOK
    <2>2. CopiesAreFresh'
        BY <1>0, <1>5 DEF Shelf!CountUnits, Shelf!TypeOK, CopiesAreFresh
    <2>3. RoomIsLeft'
        <3>1. units \in Nat /\ limit \in Nat /\ \A f \in Editors : allowed[f] \in Nat
            BY <1>0, LimitsAreNumbers
        <3>2. CASE units >= allowed[e]
            BY <1>0, <1>5, <3>2 DEF Shelf!CountUnits, Shelf!TypeOK, RoomIsLeft
        <3>3. CASE units < allowed[e]
            <4>1. /\ epc[e] = "count" /\ epc' = [epc EXCEPT ![e] = "create"]
                  /\ loose' = (loose \/ \E o \in Editors \ {e} : epc[o] = "create")
                  /\ UNCHANGED <<units, limit, allowed>>
                BY <1>5, <3>1, <3>3 DEF Shelf!CountUnits
            <4>2. SUFFICES ASSUME ~loose'
                           PROVE  RoomIsLeft'
                BY DEF RoomIsLeft
            <4>3. ~loose /\ \A o \in Editors \ {e} : epc[o] # "create"
                BY <4>1, <4>2
            <4>4. allowed[e] <= limit
                BY <1>0, <4>1, <4>3 DEF RoomIsLeft
            <4>5. units + 1 <= limit
                BY <3>1, <3>3, <4>4
            <4>6. \A f \in Editors : epc'[f] = (IF f = e THEN "create" ELSE epc[f])
                BY <1>0, <4>1 DEF Shelf!TypeOK
            <4>7. units <= limit /\ \A f \in Editors : epc[f] = "count" => allowed[f] <= limit
                BY <1>0, <4>3 DEF RoomIsLeft
            <4>8. UNCHANGED <<units, limit, allowed>>
                BY <4>1
            <4>9. units' <= limit' /\ \A f \in Editors : epc'[f] = "count" => allowed'[f] <= limit'
                BY <4>6, <4>7, <4>8
            <4>10. \A f \in Editors : epc'[f] = "create" => units' + 1 <= limit'
                BY <4>5, <4>8
            <4>11. \A f, h \in Editors : epc'[f] = "create" /\ epc'[h] = "create" => f = h
                BY <4>3, <4>6
            <4>12. QED
                BY <4>9, <4>10, <4>11 DEF RoomIsLeft
        <3>4. QED
            BY <3>1, <3>2, <3>3
    <2>4. BringsFit'
        BY <1>0, <1>5 DEF Shelf!CountUnits, Shelf!TypeOK, BringsFit
    <2>5. OneLine'
        BY <1>0, <1>5 DEF Shelf!CountUnits, Shelf!TypeOK, OneLine, BringsFit
    <2>6. QED
        BY <2>1, <2>2, <2>3, <2>4, <2>5 DEF ShelfInv
<1>6. CASE Shelf!CreateUnit(e)
    <2>1. Shelf!TypeOK'
        BY <1>0, <1>6 DEF Shelf!CreateUnit, Shelf!TypeOK
    <2>2. CopiesAreFresh'
        BY <1>0, <1>6 DEF Shelf!CreateUnit, Shelf!TypeOK, CopiesAreFresh
    <2>3. RoomIsLeft'
        BY <1>0, <1>6 DEF Shelf!CreateUnit, Shelf!TypeOK, RoomIsLeft
    <2>4. BringsFit'
        BY <1>0, <1>6 DEF Shelf!CreateUnit, Shelf!TypeOK, BringsFit
    <2>5. OneLine'
        BY <1>0, <1>6 DEF Shelf!CreateUnit, Shelf!TypeOK, OneLine, BringsFit
    <2>6. QED
        BY <2>1, <2>2, <2>3, <2>4, <2>5 DEF ShelfInv
<1>7. CASE Shelf!CreateVersion(e)
    <2>1. Shelf!TypeOK'
        BY <1>0, <1>7 DEF Shelf!CreateVersion, Shelf!TypeOK, BringsFit
    <2>2. CopiesAreFresh'
        BY <1>0, <1>7 DEF Shelf!CreateVersion, Shelf!TypeOK, CopiesAreFresh
    <2>3. RoomIsLeft'
        BY <1>0, <1>7 DEF Shelf!CreateVersion, Shelf!TypeOK, RoomIsLeft
    <2>4. BringsFit'
        BY <1>0, <1>7 DEF Shelf!CreateVersion, Shelf!TypeOK, BringsFit
    <2>5. OneLine'
        <3> DEFINE new == about[e]
                   old == latest[e]
        <3>1. /\ epc[e] = "version"
              /\ docVersion' = [docVersion EXCEPT ![new] = docVersion[old] + 1]
              /\ previous' = [previous EXCEPT ![new] = old]
              /\ forked' = (forked \/ \E o \in Editors \ {e} : epc[o] = "version")
              /\ epc' = [epc EXCEPT ![e] = "idle"]
            BY <1>7 DEF Shelf!CreateVersion
        <3>2. /\ new \in Documents /\ old \in Documents
              /\ docVersion[new] = 0 /\ docVersion[old] \in Nat /\ docVersion[old] > 0
            BY <1>0, <3>1 DEF BringsFit, Shelf!TypeOK
        <3>3. SUFFICES ASSUME ~forked'
                       PROVE  OneLine'
            BY DEF OneLine
        <3>4. ~forked /\ \A o \in Editors : epc'[o] # "version"
            BY <1>0, <3>1, <3>3 DEF Shelf!TypeOK
        <3>5. \A d \in Documents : docVersion[d] \in Nat /\ docVersion[d] <= docVersion[old]
            BY <1>0, <3>1, <3>4 DEF OneLine, Shelf!TypeOK
        <3>6. \A d \in Documents : /\ docVersion'[d] = (IF d = new THEN docVersion[old] + 1 ELSE docVersion[d])
                                  /\ previous'[d] = (IF d = new THEN old ELSE previous[d])
            BY <1>0, <3>1, <3>2 DEF Shelf!TypeOK
        <3>7. ASSUME NEW c \in Documents, NEW d \in Documents, docVersion'[d] > 1, docVersion'[c] = docVersion'[d]
              PROVE  c = d
            BY <1>0, <3>2, <3>4, <3>5, <3>6, <3>7 DEF OneLine
        <3>8. ASSUME NEW d \in Documents, docVersion'[d] > 1
              PROVE  previous'[d] \in Documents /\ docVersion'[previous'[d]] = docVersion'[d] - 1
            <4>1. CASE d = new
                BY <3>2, <3>6, <4>1
            <4>2. CASE d # new
                <5>1. previous[d] \in Documents /\ docVersion[previous[d]] = docVersion[d] - 1 /\ docVersion[d] > 1
                    BY <1>0, <3>4, <3>6, <3>8, <4>2 DEF OneLine
                <5>2. previous[d] # new
                    BY <3>2, <3>5, <5>1
                <5>3. QED
                    BY <3>6, <4>2, <5>1, <5>2
            <4>3. QED
                BY <4>1, <4>2
        <3>9. QED
            BY <3>4, <3>7, <3>8 DEF OneLine
    <2>6. QED
        BY <2>1, <2>2, <2>3, <2>4, <2>5 DEF ShelfInv
<1>8. CASE Shelf!Stop(e)
    <2>1. Shelf!TypeOK'
        BY <1>0, <1>8 DEF Shelf!Stop, Shelf!TypeOK
    <2>2. CopiesAreFresh'
        BY <1>0, <1>8 DEF Shelf!Stop, Shelf!TypeOK, CopiesAreFresh
    <2>3. RoomIsLeft'
        BY <1>0, <1>8 DEF Shelf!Stop, Shelf!TypeOK, RoomIsLeft
    <2>4. BringsFit'
        BY <1>0, <1>8 DEF Shelf!Stop, Shelf!TypeOK, BringsFit
    <2>5. OneLine'
        BY <1>0, <1>8 DEF Shelf!Stop, Shelf!TypeOK, OneLine, BringsFit
    <2>6. QED
        BY <2>1, <2>2, <2>3, <2>4, <2>5 DEF ShelfInv
<1>9. QED
    BY <1>1, <1>2, <1>3, <1>4, <1>5, <1>6, <1>7, <1>8 DEF Shelf!EditorStep

LEMMA OthersKeepShelf ==
    ASSUME ShelfInv,
           \/ \E list \in SUBSET Images : Shelf!UpdateListing(list)
           \/ Shelf!CreateUncounted \/ Shelf!DeleteUnit
           \/ \E to \in Limits : Shelf!ChangePlan(to)
           \/ \E d \in Documents : Shelf!StoreGeneratedDocument(d)
    PROVE  ShelfInv'
<1> USE LimitsAssumption, DocumentsAssumption, MaxCatalogEventsAssumption
    DEF Shelf!Happens, Shelf!Others, Shelf!Fresh, Shelf!Stored,
        Shelf!listingVars, Shelf!planVars, Shelf!documentVars, Shelf!editorVars
<1>0. Shelf!TypeOK /\ CopiesAreFresh /\ RoomIsLeft /\ BringsFit /\ OneLine
    BY DEF ShelfInv
<1>1. ASSUME NEW list \in SUBSET Images, Shelf!UpdateListing(list)
      PROVE  ShelfInv'
    <2>1. Shelf!TypeOK'
        BY <1>0, <1>1 DEF Shelf!UpdateListing, Shelf!TypeOK
    <2>2. CopiesAreFresh'
        BY <1>0, <1>1 DEF Shelf!UpdateListing, Shelf!TypeOK, CopiesAreFresh
    <2>3. RoomIsLeft'
        BY <1>0, <1>1 DEF Shelf!UpdateListing, Shelf!TypeOK, RoomIsLeft
    <2>4. BringsFit'
        BY <1>0, <1>1 DEF Shelf!UpdateListing, Shelf!TypeOK, BringsFit
    <2>5. OneLine'
        BY <1>0, <1>1 DEF Shelf!UpdateListing, Shelf!TypeOK, OneLine, BringsFit
    <2>6. QED
        BY <2>1, <2>2, <2>3, <2>4, <2>5 DEF ShelfInv
<1>2. CASE Shelf!CreateUncounted
    <2>1. Shelf!TypeOK'
        BY <1>0, <1>2 DEF Shelf!CreateUncounted, Shelf!TypeOK
    <2>2. CopiesAreFresh'
        BY <1>0, <1>2 DEF Shelf!CreateUncounted, Shelf!TypeOK, CopiesAreFresh
    <2>3. RoomIsLeft'
        <3>1. units \in Nat /\ limit \in Nat
            BY <1>0, LimitsAreNumbers
        <3>2. /\ units' = units + 1 /\ UNCHANGED <<limit, epc, allowed>>
              /\ loose' = (loose \/ units >= limit \/ \E o \in Editors : epc[o] = "create")
            BY <1>2 DEF Shelf!CreateUncounted
        <3>3. SUFFICES ASSUME ~loose'
                       PROVE  RoomIsLeft'
            BY DEF RoomIsLeft
        <3>4. ~loose /\ ~(units >= limit) /\ \A o \in Editors : epc[o] # "create"
            BY <3>2, <3>3
        <3>5. units < limit
            BY <3>1, <3>4
        <3>6. QED
            BY <1>0, <3>1, <3>2, <3>4, <3>5 DEF RoomIsLeft
    <2>4. BringsFit'
        BY <1>0, <1>2 DEF Shelf!CreateUncounted, Shelf!TypeOK, BringsFit
    <2>5. OneLine'
        BY <1>0, <1>2 DEF Shelf!CreateUncounted, Shelf!TypeOK, OneLine, BringsFit
    <2>6. QED
        BY <2>1, <2>2, <2>3, <2>4, <2>5 DEF ShelfInv
<1>3. CASE Shelf!DeleteUnit
    <2>1. Shelf!TypeOK'
        BY <1>0, <1>3 DEF Shelf!DeleteUnit, Shelf!TypeOK
    <2>2. CopiesAreFresh'
        BY <1>0, <1>3 DEF Shelf!DeleteUnit, Shelf!TypeOK, CopiesAreFresh
    <2>3. RoomIsLeft'
        BY <1>0, <1>3 DEF Shelf!DeleteUnit, Shelf!TypeOK, RoomIsLeft
    <2>4. BringsFit'
        BY <1>0, <1>3 DEF Shelf!DeleteUnit, Shelf!TypeOK, BringsFit
    <2>5. OneLine'
        BY <1>0, <1>3 DEF Shelf!DeleteUnit, Shelf!TypeOK, OneLine, BringsFit
    <2>6. QED
        BY <2>1, <2>2, <2>3, <2>4, <2>5 DEF ShelfInv
<1>4. ASSUME NEW to \in Limits, Shelf!ChangePlan(to)
      PROVE  ShelfInv'
    <2>1. Shelf!TypeOK'
        BY <1>0, <1>4 DEF Shelf!ChangePlan, Shelf!TypeOK
    <2>2. CopiesAreFresh'
        BY <1>0, <1>4 DEF Shelf!ChangePlan, Shelf!TypeOK, CopiesAreFresh
    <2>3. RoomIsLeft'
        <3>1. units \in Nat /\ limit \in Nat /\ to \in Nat /\ \A f \in Editors : allowed[f] \in Nat
            BY <1>0, LimitsAreNumbers, LimitsAssumption, Zenon
        <3>2. /\ limit' = to /\ UNCHANGED <<units, epc, allowed>>
              /\ loose' = (loose \/ to < units \/ (to < limit /\ \E o \in Editors : epc[o] \in {"count", "create"}))
            BY <1>4 DEF Shelf!ChangePlan
        <3>3. SUFFICES ASSUME ~loose'
                       PROVE  RoomIsLeft'
            BY DEF RoomIsLeft
        <3>4. ~loose /\ ~(to < units) /\ (to < limit => \A o \in Editors : epc[o] \notin {"count", "create"})
            BY <3>2, <3>3
        <3>5. CASE to < limit
            BY <1>0, <3>1, <3>2, <3>4, <3>5 DEF RoomIsLeft
        <3>6. CASE ~(to < limit)
            BY <1>0, <3>1, <3>2, <3>4, <3>6 DEF RoomIsLeft
        <3>7. QED
            BY <3>5, <3>6
    <2>4. BringsFit'
        BY <1>0, <1>4 DEF Shelf!ChangePlan, Shelf!TypeOK, BringsFit
    <2>5. OneLine'
        BY <1>0, <1>4 DEF Shelf!ChangePlan, Shelf!TypeOK, OneLine, BringsFit
    <2>6. QED
        BY <2>1, <2>2, <2>3, <2>4, <2>5 DEF ShelfInv
<1>5. ASSUME NEW d \in Documents, Shelf!StoreGeneratedDocument(d)
      PROVE  ShelfInv'
    <2>1. Shelf!TypeOK'
        BY <1>0, <1>5 DEF Shelf!StoreGeneratedDocument, Shelf!TypeOK
    <2>2. CopiesAreFresh'
        BY <1>0, <1>5 DEF Shelf!StoreGeneratedDocument, Shelf!TypeOK, CopiesAreFresh
    <2>3. RoomIsLeft'
        BY <1>0, <1>5 DEF Shelf!StoreGeneratedDocument, Shelf!TypeOK, RoomIsLeft
    <2>4. BringsFit'
        BY <1>0, <1>5 DEF Shelf!StoreGeneratedDocument, Shelf!TypeOK, BringsFit
    <2>5. OneLine'
        BY <1>0, <1>5 DEF Shelf!StoreGeneratedDocument, Shelf!TypeOK, OneLine, BringsFit
    <2>6. QED
        BY <2>1, <2>2, <2>3, <2>4, <2>5 DEF ShelfInv
<1>6. QED
    BY <1>1, <1>2, <1>3, <1>4, <1>5

LEMMA ShelfNext == ShelfInv /\ [Next]_sceneVars => ShelfInv'
<1> SUFFICES ASSUME ShelfInv, [Next]_sceneVars
             PROVE  ShelfInv'
    OBVIOUS
<1>1. CASE Shelf!Next
    BY <1>1, EditorKeepsShelf, OthersKeepShelf DEF Shelf!Next
<1>2. CASE UNCHANGED shelfVars
    BY <1>2 DEF shelfVars, ShelfInv, Shelf!TypeOK, CopiesAreFresh, RoomIsLeft, BringsFit, OneLine
<1>3. QED
    BY <1>1, <1>2 DEF Next, sceneVars

LEMMA ShelfAlways == Spec => []ShelfInv
<1>1. Init => ShelfInv
    BY ShelfInit DEF Init
<1>2. QED
    BY <1>1, ShelfNext, PTL DEF Spec

(***************************************************************************)
(* Images, unit counts and versions that are written from a copy agree     *)
(* with what was asked for, unless two image edits met, two creations met, *)
(* one was not counted, the plan became smaller, or two versions were made *)
(* at once; for any number of requests, images, plans and documents.       *)
(***************************************************************************)
THEOREM CatalogAgreesHolds == Spec => []CatalogAgrees
<1>1. ShelfInv => CatalogAgrees
    <2> SUFFICES ASSUME ShelfInv
                 PROVE  Shelf!CatalogAgrees
        BY DEF CatalogAgrees
    <2>1. ~mixed => images = edited
        BY DEF ShelfInv, CopiesAreFresh
    <2>2. ~loose => units <= limit
        BY DEF ShelfInv, RoomIsLeft
    <2>3. ASSUME ~forked, NEW c \in Shelf!Stored, NEW d \in Shelf!Stored, docVersion[d] > 1
          PROVE  /\ docVersion[c] = docVersion[d] => c = d
                 /\ previous[d] \in Shelf!Stored /\ docVersion[previous[d]] = docVersion[d] - 1
        BY <2>3 DEF ShelfInv, OneLine, Shelf!Stored, Shelf!TypeOK
    <2>4. QED
        BY <2>1, <2>2, <2>3 DEF Shelf!CatalogAgrees
<1>2. QED
    BY <1>1, ShelfAlways, PTL

-----------------------------------------------------------------------------
(***************************************************************************)
(* Every part of the back office keeps to its types.                       *)
(***************************************************************************)
THEOREM TypesHold == Spec => []TypeOK
<1>1. RunInv /\ UnitsInv /\ TeamInv /\ MiddlewareInv /\ TasksInv /\ ShelfInv => TypeOK
    BY DEF RunInv, UnitsInv, TeamInv, MiddlewareInv, TasksInv, ShelfInv, TypeOK
<1>2. QED
    BY <1>1, RunAlways, UnitsAlways, TeamAlways, MiddlewareAlways, TasksAlways, ShelfAlways, PTL
=============================================================================
