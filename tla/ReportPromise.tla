---------------------------- MODULE ReportPromise ----------------------------
(***************************************************************************)
(* What report publication promises a client: a text of a report is shown  *)
(* only by publishing the approval that stands for that very text, an      *)
(* approval is used once, and what was withdrawn stays hidden until the    *)
(* next publication.                                                       *)
(***************************************************************************)
CONSTANTS Reports, Texts, None

VARIABLES
    approval,  \* the text of a report whose approval stands
    shown      \* the text of a report clients see
vars == <<approval, shown>>

TypeOK ==
    /\ approval \in [Reports -> Texts \cup {None}]
    /\ shown \in [Reports -> Texts \cup {None}]

Init ==
    /\ approval = [r \in Reports |-> None]
    /\ shown = [r \in Reports |-> None]

Keep(r)     == approval'[r] = approval[r] /\ shown'[r] = shown[r]
Approve(r)  == approval[r] = None /\ approval'[r] \in Texts /\ shown'[r] = shown[r]
Lapse(r)    == approval'[r] = None /\ shown'[r] = shown[r]
Publish(r)  == approval[r] # None /\ approval'[r] = None /\ shown'[r] = approval[r]
Withdraw(r) == approval'[r] = None /\ shown'[r] = None

\* A page may do one of these to several reports at once.
Next ==
    /\ TypeOK'
    /\ \A r \in Reports : Keep(r) \/ Approve(r) \/ Lapse(r) \/ Publish(r) \/ Withdraw(r)

Spec == Init /\ [][Next]_vars
=============================================================================
