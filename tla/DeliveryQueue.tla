---------------------------- MODULE DeliveryQueue ----------------------------
(***************************************************************************)
(* What the background-job table promises to the rest of SiteLager: a job  *)
(* that is reported done has had every one of its effects applied at least *)
(* once.  Nothing is promised about how often an effect is applied, and a  *)
(* job that is done or given up may be reopened.                           *)
(***************************************************************************)

CONSTANTS Jobs,    \* the identifiers of background jobs
          Effects  \* the effects that each job's handler has to apply

VARIABLES outcome,    \* what the table says of each job
          delivered   \* the effects already applied for each job

dqVars == <<outcome, delivered>>

Init ==
    /\ outcome = [j \in Jobs |-> "absent"]
    /\ delivered = [j \in Jobs |-> {}]

Known(j) == outcome[j] # "absent"

Submit(j) ==
    /\ ~Known(j)
    /\ outcome' = [outcome EXCEPT ![j] = "open"]
    /\ UNCHANGED delivered

Deliver(j, i) ==
    /\ Known(j)
    /\ delivered' = [delivered EXCEPT ![j] = @ \cup {i}]
    /\ UNCHANGED outcome

Finish(j) ==
    /\ Known(j)
    /\ Effects[j] \subseteq delivered[j]
    /\ outcome' = [outcome EXCEPT ![j] = "done"]
    /\ UNCHANGED delivered

GiveUp(j) ==
    /\ Known(j)
    /\ outcome' = [outcome EXCEPT ![j] = "dead"]
    /\ UNCHANGED delivered

Reopen(j) ==
    /\ Known(j)
    /\ outcome' = [outcome EXCEPT ![j] = "open"]
    /\ UNCHANGED delivered

Next ==
    \E j \in Jobs :
        \/ Submit(j)
        \/ \E i \in Effects[j] : Deliver(j, i)
        \/ Finish(j)
        \/ GiveUp(j)
        \/ Reopen(j)

Spec == Init /\ [][Next]_dqVars
=============================================================================
