---------------------------- MODULE MCCommercial ----------------------------
(* A small organisation's rent book. *)
EXTENDS Commercial, TLC
CONSTANTS c1, c2, r1, p1

\* -2: a refund, a credit note, or a correction made by hand.
MCAmounts == {-2, 1, 2}

MCObligations ==
    {[lease_id |-> 1, due_date |-> 0, amount_due |-> 2, invoice_reference |-> r] :
        r \in {r1, NoRef}}
    \union {[lease_id |-> 1, due_date |-> 0, amount_due |-> -2, invoice_reference |-> NoRef]}

MCPayments ==
    {[lease_id |-> l, amount |-> 2, received_date |-> 0, payer_reference |-> r1] : l \in {0, 1}}
    \union {[lease_id |-> 1, amount |-> 2, received_date |-> 0, payer_reference |-> NoRef],
            [lease_id |-> 1, amount |-> 1, received_date |-> 1, payer_reference |-> NoRef],
            [lease_id |-> 1, amount |-> -2, received_date |-> 0, payer_reference |-> NoRef]}

MCClerks == {c1, c2}
Symmetry == Permutations(MCClerks)
=============================================================================
