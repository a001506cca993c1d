---------------------------- MODULE MCConsultation ----------------------------
(* Values of the constants of ConsultationPipeline and ConfirmationEmail for TLC. *)
EXTENDS ConfirmationEmail, TLC

CONSTANTS c1, b1, b2, t1, t2, p1, p2, a1, a2, s1, s2

(* Both payments are needed to cover the fee. *)
BothPayments == {Payments}

(* Either payment covers the fee. *)
EitherPayment == SUBSET Payments \ {{}}

Symmetry == Permutations(Bookings) \cup Permutations(Times) \cup Permutations(Assessments)
            \cup Permutations(Payments) \cup Permutations(Senders)
===============================================================================
