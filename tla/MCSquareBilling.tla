--------------------------- MODULE MCSquareBilling ---------------------------
(* Values of the constants of SquareBilling for TLC: one invoice of amount 2. *)
EXTENDS SquareBilling, FiniteSetsExt, TLC

CONSTANTS p1, p2, r1, r2, i1, o1, o2, w1, w2, c1, c2

(* One payment covers the invoice; the amount of a refund is half of it. *)
WholePayment == [x \in {p1} |-> 2] @@ [x \in {r1, r2} |-> 1]

(* Two payments of half the amount each. *)
HalfPayments == [x \in {p1, p2} |-> 1] @@ [x \in {r1, r2} |-> 1]

TotalOf(amount) ==
    [S \in (SUBSET Payments) \cup (SUBSET Refunds) |-> MapThenSumSet(LAMBDA x : amount[x], S)]

WholeTotal == TotalOf(WholePayment)
HalfTotal  == TotalOf(HalfPayments)
DueTwo     == [i \in Invoices |-> 2]
RefundsOfFirst == [r \in Refunds |-> p1]
Symmetry == Permutations(Workers) \cup Permutations(Issuers) \cup Permutations(Orders)
================================================================================
