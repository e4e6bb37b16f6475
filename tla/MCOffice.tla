------------------------------ MODULE MCOffice ------------------------------
(***************************************************************************)
(* Three agreements of two organisations and two runs, one for everybody;  *)
(* two owners and two invitations to one address; three requests with one  *)
(* idempotency key, one of them with another body, on two servers.         *)
(***************************************************************************)
EXTENDS Office

CONSTANTS a1, a2, a3, o1, o2, r1, r2, i1, i2, p1, p2, p3, e1, e2, v1, v2, n1, x1, g1, g2, d1, d2, d3

MCOrganisationOf == [a \in {a1, a2, a3} |-> IF a = a3 THEN o2 ELSE o1]
MCScopeOf == [r \in {r1, r2} |-> IF r = r1 THEN {o1, o2} ELSE {o1}]
MCEmailOf == [i \in {i1, i2} |-> "one address"]
MCBodyOf == [p \in {p1, p2, p3} |-> p = p3]
MCServerOf == [p \in {p1, p2, p3} |-> IF p = p1 THEN v1 ELSE v2]
=============================================================================
