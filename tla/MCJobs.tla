------------------------------- MODULE MCJobs -------------------------------
(* Two jobs, one with a single attempt, two workers and two effects each. *)
EXTENDS Jobs, TLC

CONSTANTS i1, i2, w1, w2

MCEffects == <<{i1, i2}, {i1}>>
MCWorkers == {w1, w2}
MCMaxAttempts == [j \in 1..2 |-> j]
MCSelections == {{1, 2}}
MCStartDelays == {0}
=============================================================================
