----------------------------- MODULE MCBooking -----------------------------
(***************************************************************************)
(* Two units, three sessions, two requests of one customer.  To keep the   *)
(* state space small the third session, which asks for the second unit, is *)
(* open before the two others start; from then on everything interleaves.  *)
(***************************************************************************)
EXTENDS Booking, TLC

CONSTANTS u1, u2, s1, s2, s3, r1, r2, e1

MCUnits == {u1, u2}
MCSessions == {s1, s2, s3}
MCRequests == {r1, r2}
MCListing == (s1 :> u1) @@ (s2 :> u1) @@ (s3 :> u2)
MCMode == (u1 :> "instant_booking") @@ (u2 :> "approval_required")
MCEmailOf == [r \in MCRequests |-> e1]

ThirdSessionFirst == spc[s3] = "open" \/ \A s \in {s1, s2} : spc'[s] = "idle"

MCSpec == Init /\ [][Next /\ ThirdSessionFirst]_vars

Symmetry == Permutations({s1, s2}) \cup Permutations(MCRequests)
=============================================================================
