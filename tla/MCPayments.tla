----------------------------- MODULE MCPayments -----------------------------
(* One invoice, with a Mollie link and a direct charge, or a link alone. *)
EXTENDS Payments, TLC

CONSTANTS i1, p1, p2, c1, c2, d1

MCInvoiceOf == [p \in Payments |-> i1]

Symmetry == Permutations(Calls)
=============================================================================
