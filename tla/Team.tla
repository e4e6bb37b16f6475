------------------------------- MODULE Team -------------------------------
(***************************************************************************)
(* The members of one organisation: removing them, inviting people,        *)
(* revoking an invitation and accepting it (team.service.ts,               *)
(* auth.service.ts).  What a request has found holds when it was read; the *)
(* write comes later, and only the acceptance is a transaction.            *)
(***************************************************************************)
EXTENDS Integers

CONSTANTS
    Owners,        \* members with the role owner
    Staff,         \* members with another role
    Invitations,
    EmailOf,       \* of each invitation
    Requests,      \* concurrent requests
    MaxTeamEvents, \* bound: requests and stops
    Nobody

Members == Owners \cup Staff
Emails == {EmailOf[i] : i \in Invitations}

VARIABLES
    removed,    \* members with a deletedAt
    invitation, \* the status of each invitation
    joined,     \* invitations that have led to a user and a member
    qpc, who,   \* requests: position, the member or invitation they are about
    \* history and bound
    hasty,      \* two removals of owners overlapped
    raced,      \* invitations revoked while they were being accepted
    teamEvents

requestVars == <<qpc, who>>
vars == <<removed, invitation, joined, requestVars, hasty, raced, teamEvents>>

TypeOK ==
    /\ removed \in SUBSET Members
    /\ invitation \in [Invitations -> {"none", "pending", "accepted", "revoked"}]
    /\ joined \in SUBSET Invitations
    /\ qpc \in [Requests -> {"idle", "count", "remove", "revoke", "join"}]
    /\ who \in [Requests -> Members \cup Invitations \cup {Nobody}]
    /\ hasty \in BOOLEAN
    /\ raced \in SUBSET Invitations
    /\ teamEvents \in 0..MaxTeamEvents

Init ==
    /\ removed = {}
    /\ invitation = [i \in Invitations |-> "none"]
    /\ joined = {}
    /\ qpc = [q \in Requests |-> "idle"]
    /\ who = [q \in Requests |-> Nobody]
    /\ hasty = FALSE /\ raced = {}
    /\ teamEvents = 0

Happens == teamEvents < MaxTeamEvents /\ teamEvents' = teamEvents + 1

Begin(q, where, x) ==
    /\ qpc[q] = "idle"
    /\ Happens
    /\ qpc' = [qpc EXCEPT ![q] = where]
    /\ who' = [who EXCEPT ![q] = x]

Return(q) ==
    /\ qpc' = [qpc EXCEPT ![q] = "idle"]
    /\ who' = [who EXCEPT ![q] = Nobody]

-----------------------------------------------------------------------------
OwnersLeft == Owners \ removed

(* The count of the owners that are left is one or less. *)
LastOwner == \A a, b \in OwnersLeft : a = b

(* removeMember, by an owner who is not the member: the guard has read the owner's row whether or not it is deleted. *)
FindMember(q, m) ==
    /\ \E by \in Owners : by # m
    /\ m \in Members \ removed
    /\ Begin(q, IF m \in Owners THEN "count" ELSE "remove", m)
    /\ UNCHANGED <<removed, invitation, joined, hasty, raced>>

(* Faulty variant: nobody is counted. *)
CountOwners_Omitted(q) ==
    /\ qpc[q] = "count"
    /\ qpc' = [qpc EXCEPT ![q] = "remove"]
    /\ UNCHANGED <<removed, invitation, joined, who, hasty, raced, teamEvents>>

CountOwners(q) ==
    /\ qpc[q] = "count"
    /\ IF LastOwner
       THEN Return(q) /\ UNCHANGED hasty
       ELSE /\ qpc' = [qpc EXCEPT ![q] = "remove"]
            /\ hasty' = (hasty \/ \E p \in Requests \ {q} : qpc[p] = "remove" /\ who[p] \in Owners)
            /\ UNCHANGED who
    /\ UNCHANGED <<removed, invitation, joined, raced, teamEvents>>

RemoveMember(q) ==
    /\ qpc[q] = "remove"
    /\ removed' = removed \cup {who[q]}
    /\ Return(q)
    /\ UNCHANGED <<invitation, joined, hasty, raced, teamEvents>>

-----------------------------------------------------------------------------
Invite(i) ==
    /\ invitation[i] = "none"
    /\ Happens
    /\ invitation' = [invitation EXCEPT ![i] = "pending"]
    /\ UNCHANGED <<removed, joined, requestVars, hasty, raced>>

(* Both look for a pending invitation; the other one may be under way already. *)
Race(q, i, other) == \E p \in Requests \ {q} : qpc[p] = other /\ who[p] = i

FindToRevoke(q, i) ==
    /\ invitation[i] = "pending"
    /\ Begin(q, "revoke", i)
    /\ raced' = IF Race(q, i, "join") THEN raced \cup {i} ELSE raced
    /\ UNCHANGED <<removed, invitation, joined, hasty>>

Revoke(q) ==
    /\ qpc[q] = "revoke"
    /\ invitation' = [invitation EXCEPT ![who[q]] = "revoked"]
    /\ Return(q)
    /\ UNCHANGED <<removed, joined, hasty, raced, teamEvents>>

FindToAccept(q, i) ==
    /\ invitation[i] = "pending"
    /\ Begin(q, "join", i)
    /\ raced' = IF Race(q, i, "revoke") THEN raced \cup {i} ELSE raced
    /\ UNCHANGED <<removed, invitation, joined, hasty>>

(* An address with a user already: the transaction is rolled back. *)
Known(i) == \E j \in joined : EmailOf[j] = EmailOf[i]

(* Faulty variant: the invitation is not updated in the transaction. *)
Join_Silent(q) ==
    /\ qpc[q] = "join"
    /\ joined' = IF Known(who[q]) THEN joined ELSE joined \cup {who[q]}
    /\ Return(q)
    /\ UNCHANGED <<removed, invitation, hasty, raced, teamEvents>>

Join(q) ==
    /\ qpc[q] = "join"
    /\ IF Known(who[q])
       THEN UNCHANGED <<invitation, joined>>
       ELSE /\ joined' = joined \cup {who[q]}
            /\ invitation' = [invitation EXCEPT ![who[q]] = "accepted"]
    /\ Return(q)
    /\ UNCHANGED <<removed, hasty, raced, teamEvents>>

(* A statement throws or the process dies. *)
Stop(q) ==
    /\ qpc[q] # "idle"
    /\ Happens
    /\ Return(q)
    /\ UNCHANGED <<removed, invitation, joined, hasty, raced>>

RequestStep(q) ==
    \/ \E m \in Members : FindMember(q, m)
    \/ \E i \in Invitations : FindToRevoke(q, i) \/ FindToAccept(q, i)
    \/ CountOwners(q) \/ RemoveMember(q) \/ Revoke(q) \/ Join(q) \/ Stop(q)

Next == (\E q \in Requests : RequestStep(q)) \/ (\E i \in Invitations : Invite(i))

Spec == Init /\ [][Next]_vars
-----------------------------------------------------------------------------
(***************************************************************************)
(* The organisation keeps an owner, however many removals are under way,   *)
(* unless one of them counted the owners while another one was about to    *)
(* remove one that it counted.                                             *)
(***************************************************************************)
SomeOwner == ~hasty => OwnersLeft # {}

(***************************************************************************)
(* The status of an invitation tells what became of it: it is accepted if  *)
(* and only if it has led to a member, though two requests may accept it   *)
(* at once, unless it was revoked while it was being accepted; and no      *)
(* address has led to two users.                                           *)
(***************************************************************************)
InvitationsAgree ==
    /\ \A i \in Invitations \ raced : i \in joined <=> invitation[i] = "accepted"
    /\ \A i, j \in joined : EmailOf[i] = EmailOf[j] => i = j
=============================================================================
