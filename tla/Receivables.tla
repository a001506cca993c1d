------------------------------ MODULE Receivables ------------------------------
(***************************************************************************)
(* What billing promises about an invoice, whoever carries it out: it can  *)
(* be paid on one order, which is its own and never changes; what has been *)
(* collected on it is never taken back or counted for another invoice; it  *)
(* becomes PAID only when what has been collected covers it, and then      *)
(* stays PAID.  A voided invoice comes back only by being linked late or   *)
(* by being paid.                                                          *)
(***************************************************************************)
EXTENDS Naturals

CONSTANTS Invoices, Orders, Payments, Due, Total, NoOrder

VARIABLES
    link,       \* the order an invoice can be paid on
    collected,  \* the payments that came in on it
    state       \* "OPEN", "PAID" or "VOID"
vars == <<link, collected, state>>

Init ==
    /\ link = [i \in Invoices |-> NoOrder]
    /\ collected = [i \in Invoices |-> {}]
    /\ state = [i \in Invoices |-> "OPEN"]

Link(i, o) ==
    /\ link[i] = NoOrder /\ \A j \in Invoices : link[j] # o
    /\ state[i] # "PAID"
    /\ link' = [link EXCEPT ![i] = o]
    /\ state' = [state EXCEPT ![i] = "OPEN"]
    /\ UNCHANGED collected

Collect(i, p) ==
    /\ link[i] # NoOrder /\ \A j \in Invoices : p \notin collected[j]
    /\ collected' = [collected EXCEPT ![i] = @ \cup {p}]
    /\ UNCHANGED <<link, state>>

Pay(i) ==
    /\ link[i] # NoOrder /\ state[i] # "PAID" /\ Total[collected[i]] >= Due[i]
    /\ state' = [state EXCEPT ![i] = "PAID"]
    /\ UNCHANGED <<link, collected>>

Void(i) ==
    /\ state[i] = "OPEN"
    /\ state' = [state EXCEPT ![i] = "VOID"]
    /\ UNCHANGED <<link, collected>>

Next ==
    \E i \in Invoices :
        \/ \E o \in Orders : Link(i, o)
        \/ \E p \in Payments : Collect(i, p)
        \/ Pay(i) \/ Void(i)

Spec == Init /\ [][Next]_vars
================================================================================
