--------------------------- MODULE MCSubscriptions ---------------------------
EXTENDS Subscriptions, TLC

CONSTANTS f1, f2

MCPlanOf == [r \in Paid |-> IF r = 1 THEN "starter" ELSE "professional"]
=============================================================================
