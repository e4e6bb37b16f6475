---------------------------- MODULE HoldRegister ----------------------------
(***************************************************************************)
(* What reservation holds promise: a hold is issued once, and it is        *)
(* either redeemed by one request or removed unredeemed; a request redeems *)
(* at most one hold.                                                       *)
(***************************************************************************)

CONSTANTS Holds,      \* the identifiers of holds
          Redeemers   \* the requests that turn holds into bookings

VARIABLES register,   \* what became of each hold
          redeemed    \* pairs of a hold and the request that redeemed it

hrVars == <<register, redeemed>>

Init ==
    /\ register = [h \in Holds |-> "unissued"]
    /\ redeemed = {}

Issue(h) ==
    /\ register[h] = "unissued"
    /\ register' = [register EXCEPT ![h] = "issued"]
    /\ UNCHANGED redeemed

Redeem(h, r) ==
    /\ register[h] = "issued"
    /\ \A p \in redeemed : p[1] # h /\ p[2] # r
    /\ register' = [register EXCEPT ![h] = "redeemed"]
    /\ redeemed' = redeemed \cup {<<h, r>>}

(* One purge may remove several holds. *)
RemoveAll(hs) ==
    /\ \A h \in hs : register[h] = "issued"
    /\ register' = [h \in Holds |-> IF h \in hs THEN "removed" ELSE register[h]]
    /\ UNCHANGED redeemed

Next ==
    \/ \E h \in Holds : Issue(h) \/ \E r \in Redeemers : Redeem(h, r)
    \/ \E hs \in SUBSET Holds : RemoveAll(hs)

Spec == Init /\ [][Next]_hrVars
=============================================================================
