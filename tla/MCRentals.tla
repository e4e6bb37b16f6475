------------------------------ MODULE MCRentals ------------------------------
(***************************************************************************)
(* A few agreements, each of a tenant of its own; sign calls by different  *)
(* people; two processes.                                                  *)
(***************************************************************************)
EXTENDS RentalLifecycle, TLC

CONSTANTS a1, a2, u1, u2, s1, s2, p1, c1, c2, l1, l2, x1, x2

MCTenantOf == [a \in Agreements |-> IF a = a1 THEN u1 ELSE u2]
MCSignerOf == [t \in SignCalls |-> IF t = s1 THEN 1 ELSE 2]
MCAbout == [t \in Jobs |-> a1]
MCProcessOf == [x \in Calls \cup Jobs \cup Lockers |-> IF x \in {c2, s2, l2} THEN x2 ELSE x1]
=============================================================================
