-------------------------- MODULE ConsultationPipeline --------------------------
(***************************************************************************)
(* From an intake to a qualified consultation.  The consultation RPCs are  *)
(* database functions: each runs in a transaction, locks the rows it       *)
(* decides on, and is one atomic step here, triggers included.  The one    *)
(* exception is the linking of a Square booking, which reads the booking   *)
(* without a lock and is two steps.                                        *)
(*                                                                         *)
(* The workflow row of a consultation is a copy of facts kept elsewhere:   *)
(* triggers on the bookings, invoices and payments tables keep it up to    *)
(* date.  Those tables are written by the Square webhook and the           *)
(* payment-link function (module SquareBilling), by the booking events     *)
(* and by the office, of which only the writes appear here.                *)
(***************************************************************************)
CONSTANTS
    Consultations,  \* intakes; each has at most one workflow and one invoice
    Bookings,       \* Square bookings
    Times,          \* appointment times
    Payments,       \* Square payments
    Assessments,    \* rows of consultation_assessments
    Enough,         \* the sets of payments that cover a consultation fee
    Overlap,        \* TRUE: a booking event may commit while a link is being
                    \* written, a slow payment-link request may write OPEN over a
                    \* newer invoice status, and a promotion may rest on a total
                    \* that has changed since it was read
    NoBooking, NoTime, NoAssessment, NoConsultation

ASSUME ConsultationAssumption ==
    /\ Enough \subseteq SUBSET Payments
    /\ {} \notin Enough
    /\ \A S \in Enough, T \in SUBSET Payments : S \subseteq T => T \in Enough
    /\ Overlap \in BOOLEAN
    /\ NoBooking \notin Bookings
    /\ NoTime \notin Times
    /\ NoAssessment \notin Assessments
    /\ NoConsultation \notin Consultations

IntakeStatus == {"SUBMITTED", "IN_REVIEW", "ACCEPTED", "DECLINED", "WITHDRAWN"}
FormStatus == {"NONE", "SUBMITTED", "REVISION_REQUESTED", "LOCKED"}
OwnerDecision == {"NONE", "PENDING", "APPROVED_FOR_CONSULTATION",
                  "NEEDS_MORE_INFORMATION", "DECLINED_FOR_CONSULTATION"}
Qualification == {"PENDING", "QUALIFIED", "NEEDS_RECORD_ASSESSMENT", "NOT_QUALIFIED"}
(* BOOKED stands for BOOKED, CONFIRMED, UPDATED and RESCHEDULED, which the
   pipeline never tells apart. *)
BookingState == {"NOT_BOOKED", "BOOKED", "CANCELLED", "COMPLETED"}
InvoiceStatus == {"NONE", "DRAFT", "OPEN", "PAST_DUE", "PAID", "VOID"}
PaymentState == {"NOT_ISSUED", "DUE", "PAID", "FAILED", "PARTIALLY_REFUNDED", "REFUNDED"}
EmailState == {"NOT_READY", "READY", "SENDING", "SENT", "FAILED"}
RowStatus == {"NONE", "PENDING", "SUCCEEDED", "FAILED", "PARTIALLY_REFUNDED", "REFUNDED"}

VARIABLES
    intake,      \* intake_submissions: status
    form,        \* preconsultation_assignments: status ("NONE": no row)
    wf,          \* consultation_workflows (owner_decision "NONE": no row)
    assessment,  \* consultation_assessments: intake and qualification
    booking,     \* dispatcher.consultation_bookings: booking_state and start_at
    invoice,     \* the consultation's invoice: status, and whether it has a payment_url
    payRow,      \* payments: status and the consultation whose invoice it pays
    charge,      \* Square: what has become of a payment
    linking      \* what a running admin_link_square_booking has read

wfvars == <<intake, form, wf, assessment, booking, invoice, payRow, charge, linking>>

NoLink == [booking |-> NoBooking, state |-> "NOT_BOOKED", start |-> NoTime]

NoWorkflow ==
    [decision |-> "NONE", booking |-> NoBooking, state |-> "NOT_BOOKED", start |-> NoTime,
     billed |-> FALSE, pay |-> "NOT_ISSUED", email |-> "NOT_READY", cleared |-> FALSE,
     completed |-> FALSE, qual |-> "PENDING", by |-> NoAssessment]

PipelineInit ==
    /\ intake = [c \in Consultations |-> "SUBMITTED"]
    /\ form = [c \in Consultations |-> "NONE"]
    /\ wf = [c \in Consultations |-> NoWorkflow]
    /\ assessment = [a \in Assessments |-> [of |-> NoConsultation, qual |-> "PENDING"]]
    /\ booking = [b \in Bookings |-> [state |-> "NOT_BOOKED", start |-> NoTime]]
    /\ invoice = [c \in Consultations |-> [status |-> "NONE", url |-> FALSE]]
    /\ payRow = [p \in Payments |-> [status |-> "NONE", of |-> NoConsultation]]
    /\ charge = [p \in Payments |-> "OPEN"]
    /\ linking = [c \in Consultations |-> NoLink]

(* The workflow row is not locked by a running link. *)
Unlocked(c) == linking[c] = NoLink

Exists(c) == wf[c].decision # "NONE"

--------------------------------------------------------------------------------
(* The triggers that keep workflow rows in step with the other tables *)

SyncFromBooking(w, state, start) ==
    [w EXCEPT !.state = state, !.start = start,
              !.cleared = @ /\ state # "CANCELLED"]

SyncFromInvoice(w, status, url) ==
    [w EXCEPT !.pay = CASE status = "PAID" -> "PAID"
                        [] status \in {"PAST_DUE", "VOID"} -> "FAILED"
                        [] status \notin {"PAID", "PAST_DUE", "VOID"} /\ url -> "DUE"
                        [] OTHER -> @,
              !.email = IF url /\ @ = "NOT_READY" THEN "READY" ELSE @,
              !.cleared = (@ \/ status = "PAID") /\ status \notin {"PAST_DUE", "VOID"}]

(* Mutant: a failure or a refund leaves the clearance alone. *)
SyncFromPaymentClears(w, status) ==
    [w EXCEPT !.pay = CASE status = "SUCCEEDED" -> "PAID"
                        [] status \in {"REFUNDED", "PARTIALLY_REFUNDED", "FAILED"} -> status
                        [] OTHER -> @,
              !.cleared = @ \/ status = "SUCCEEDED"]

(* Mutant: the payment's status copied as it comes. *)
SyncFromPaymentRaw(w, status) ==
    [w EXCEPT !.pay = IF status = "SUCCEEDED" THEN "PAID" ELSE status,
              !.cleared = (@ \/ status = "SUCCEEDED")
                          /\ status \notin {"REFUNDED", "PARTIALLY_REFUNDED", "FAILED"}]

SyncFromPayment(w, status) ==
    [w EXCEPT !.pay = CASE status = "SUCCEEDED" -> "PAID"
                        [] status \in {"REFUNDED", "PARTIALLY_REFUNDED", "FAILED"} -> status
                        [] OTHER -> @,
              !.cleared = (@ \/ status = "SUCCEEDED")
                          /\ status \notin {"REFUNDED", "PARTIALLY_REFUNDED", "FAILED"}]

--------------------------------------------------------------------------------
(* The consultation RPCs *)

(* Mutant: a client may rewrite the answers the owner has decided on. *)
SubmitAssignmentAnytime(c) ==
    /\ Unlocked(c)
    /\ intake[c] \notin {"ACCEPTED", "DECLINED", "WITHDRAWN"}
    /\ form' = [form EXCEPT ![c] = "SUBMITTED"]
    /\ wf' = [wf EXCEPT ![c].decision = IF @ = "NONE" THEN "PENDING" ELSE @]
    /\ intake' = [intake EXCEPT ![c] = "IN_REVIEW"]
    /\ UNCHANGED <<assessment, booking, invoice, payRow, charge, linking>>

SubmitAssignment(c) ==
    /\ Unlocked(c)
    /\ intake[c] \notin {"ACCEPTED", "DECLINED", "WITHDRAWN"}
    /\ wf[c].decision \in {"NONE", "PENDING", "NEEDS_MORE_INFORMATION"}
    /\ form' = [form EXCEPT ![c] = "SUBMITTED"]
    /\ wf' = [wf EXCEPT ![c].decision = "PENDING"]
    /\ intake' = [intake EXCEPT ![c] = "IN_REVIEW"]
    /\ UNCHANGED <<assessment, booking, invoice, payRow, charge, linking>>

DecideConsultation(c, d) ==
    /\ Unlocked(c)
    /\ Exists(c)
    /\ wf' = [wf EXCEPT ![c].decision = d]
    /\ form' = [form EXCEPT ![c] =
                  IF d = "NEEDS_MORE_INFORMATION" THEN "REVISION_REQUESTED" ELSE "LOCKED"]
    /\ intake' = [intake EXCEPT ![c] =
                    IF d = "DECLINED_FOR_CONSULTATION" THEN "DECLINED" ELSE "IN_REVIEW"]
    /\ UNCHANGED <<assessment, booking, invoice, payRow, charge, linking>>

(* admin_link_square_booking locks the workflow, then reads the booking. *)
LinkReads(c, b) ==
    /\ Unlocked(c)
    /\ wf[c].decision = "APPROVED_FOR_CONSULTATION"
    /\ booking[b].state \notin {"NOT_BOOKED", "CANCELLED"}
    /\ linking' = [linking EXCEPT ![c] =
                     [booking |-> b, state |-> booking[b].state, start |-> booking[b].start]]
    /\ UNCHANGED <<intake, form, wf, assessment, booking, invoice, payRow, charge>>

(* It writes what it read; square_booking_id is unique. *)
LinkWrites(c) ==
    LET l == linking[c] IN
    /\ ~Unlocked(c)
    /\ linking' = [linking EXCEPT ![c] = NoLink]
    /\ IF \E d \in Consultations \ {c} : wf[d].booking = l.booking
         THEN wf' = wf
         ELSE wf' = [wf EXCEPT ![c] = [@ EXCEPT !.booking = l.booking, !.state = l.state,
                                                !.start = l.start, !.email = "NOT_READY"]]
    /\ UNCHANGED <<intake, form, assessment, booking, invoice, payRow, charge>>

PrepareInvoice(c) ==
    /\ Unlocked(c)
    /\ wf[c].decision = "APPROVED_FOR_CONSULTATION"
    /\ wf[c].booking # NoBooking
    /\ ~wf[c].billed
    /\ invoice' = [invoice EXCEPT ![c] = [status |-> "DRAFT", url |-> FALSE]]
    /\ wf' = [wf EXCEPT ![c] = [@ EXCEPT !.billed = TRUE, !.pay = "DUE"]]
    /\ UNCHANGED <<intake, form, assessment, booking, payRow, charge, linking>>

(* Mutant: payment is not checked. *)
MarkCompletedUnpaid(c) ==
    /\ Unlocked(c)
    /\ wf[c].billed
    /\ wf[c].state # "CANCELLED"
    /\ wf' = [wf EXCEPT ![c] = [@ EXCEPT !.completed = TRUE, !.state = "COMPLETED"]]
    /\ UNCHANGED <<intake, form, assessment, booking, invoice, payRow, charge, linking>>

(* What admin_mark_consultation_completed asks of the workflow. *)
Completable(w) == w.pay = "PAID" /\ w.cleared /\ w.state # "CANCELLED"

MarkCompleted(c) ==
    /\ Unlocked(c)
    /\ Completable(wf[c])
    /\ wf' = [wf EXCEPT ![c] = [@ EXCEPT !.completed = TRUE, !.state = "COMPLETED"]]
    /\ UNCHANGED <<intake, form, assessment, booking, invoice, payRow, charge, linking>>

(* Mutant: an earlier assessment is left standing. *)
SupersedeNone(c) == assessment

(* Earlier assessments of the intake stop standing. *)
Supersede(c) ==
    [a \in Assessments |-> IF assessment[a].of = c
                             THEN [assessment[a] EXCEPT !.qual = "NOT_QUALIFIED"]
                             ELSE assessment[a]]

RecordConsultation(c, a, q) ==
    /\ Unlocked(c)
    /\ intake[c] \notin {"DECLINED", "WITHDRAWN"}
    /\ wf[c].completed
    /\ wf[c].pay = "PAID"
    /\ wf[c].cleared
    /\ assessment[a].of = NoConsultation
    /\ assessment' = [Supersede(c) EXCEPT ![a] = [of |-> c, qual |-> q]]
    /\ intake' = [intake EXCEPT ![c] = IF q = "NOT_QUALIFIED" THEN "DECLINED" ELSE "IN_REVIEW"]
    /\ wf' = [wf EXCEPT ![c] = [@ EXCEPT !.qual = q, !.by = a]]
    /\ UNCHANGED <<form, booking, invoice, payRow, charge, linking>>

(* A workspace user sets the status in the intake table; final ones are not offered again. *)
OfficeSetsStatus(c, s) ==
    /\ Unlocked(c)
    /\ intake[c] \notin {"ACCEPTED", "DECLINED", "WITHDRAWN"}
    /\ intake' = [intake EXCEPT ![c] = s]
    /\ UNCHANGED <<form, wf, assessment, booking, invoice, payRow, charge, linking>>

RpcStep(c) ==
    \/ SubmitAssignment(c)
    \/ \E d \in OwnerDecision \ {"NONE", "PENDING"} : DecideConsultation(c, d)
    \/ \E b \in Bookings : LinkReads(c, b)
    \/ LinkWrites(c)
    \/ PrepareInvoice(c)
    \/ MarkCompleted(c)
    \/ \E a \in Assessments, q \in Qualification \ {"PENDING"} : RecordConsultation(c, a, q)
    \/ \E s \in {"IN_REVIEW", "DECLINED"} : OfficeSetsStatus(c, s)

--------------------------------------------------------------------------------
(* Writes of other components to the tables the triggers watch *)

(* Mutant: the link takes no lock on the workflow, so the trigger does not wait. *)
BookingEventUnlocked(b, s, t) ==
    /\ ~Overlap => \A c \in Consultations : linking[c].booking # b
    /\ IF s = "BOOKED" THEN t \in Times
                       ELSE booking[b].state # "NOT_BOOKED" /\ t = booking[b].start
    /\ booking' = [booking EXCEPT ![b] = [state |-> s, start |-> t]]
    /\ wf' = [c \in Consultations |->
                IF wf[c].booking = b THEN SyncFromBooking(wf[c], s, t) ELSE wf[c]]
    /\ UNCHANGED <<intake, form, assessment, invoice, payRow, charge, linking>>

(* A booking event upserts the booking; the trigger updates the workflow linked
   to it, waiting for the workflow's lock.  A link that has not committed yet is
   not found by the trigger. *)
BookingEvent(b, s, t) ==
    /\ \A c \in Consultations : wf[c].booking = b => Unlocked(c)
    /\ ~Overlap => \A c \in Consultations : linking[c].booking # b
    /\ IF s = "BOOKED" THEN t \in Times
                       ELSE booking[b].state # "NOT_BOOKED" /\ t = booking[b].start
    /\ booking' = [booking EXCEPT ![b] = [state |-> s, start |-> t]]
    /\ wf' = [c \in Consultations |->
                IF wf[c].booking = b THEN SyncFromBooking(wf[c], s, t) ELSE wf[c]]
    /\ UNCHANGED <<intake, form, assessment, invoice, payRow, charge, linking>>

SetInvoice(c, status, url) ==
    /\ Unlocked(c)
    /\ invoice' = [invoice EXCEPT ![c] = [status |-> status, url |-> url]]
    /\ wf' = [wf EXCEPT ![c] = SyncFromInvoice(@, status, url)]
    /\ UNCHANGED <<intake, form, assessment, booking, payRow, charge, linking>>

(* The last request of square-create-payment-link.  The invoice was neither
   settled nor linked when the function read it; it still is not, unless requests
   overlap. *)
IssueLink(c) ==
    /\ invoice[c].status # "NONE"
    /\ (invoice[c].status \notin {"PAID", "VOID"} /\ ~invoice[c].url) \/ Overlap
    /\ SetInvoice(c, "OPEN", TRUE)

(* External: the office marks an unpaid invoice overdue or void. *)
OfficeCloses(c, status) ==
    /\ invoice[c].status \in {"DRAFT", "OPEN", "PAST_DUE"}
    /\ SetInvoice(c, status, invoice[c].url)

(* The successful payments on record for the consultation's invoice. *)
PaidRows(c) == {p \in Payments : payRow[p].of = c /\ payRow[p].status = "SUCCEEDED"}

(* Those that succeeded at some time: what a slow invocation may have counted. *)
ChargedRows(c) == {p \in Payments : payRow[p].of = c /\ charge[p] = "COMPLETED"}

(* The webhook promotes the invoice when the successful payments cover it. *)
PromoteInvoice(c) ==
    /\ invoice[c].status # "NONE"
    /\ PaidRows(c) \in Enough \/ (Overlap /\ ChargedRows(c) \in Enough)
    /\ SetInvoice(c, "PAID", invoice[c].url)

(* The statuses an event about a payment may bring.  A payment ends completed or
   failed at Square, which its first such event reveals; its events are delivered
   again and in any order, and a refund is recorded on a row of any status. *)
EventStatus(p) ==
    {"PENDING"}
    \cup (IF charge[p] # "COMPLETED" THEN {"FAILED"} ELSE {})
    \cup (IF charge[p] # "FAILED" THEN {"SUCCEEDED"} ELSE {})
    \cup (IF charge[p] # "FAILED" /\ payRow[p].status # "NONE"
            THEN {"PARTIALLY_REFUNDED", "REFUNDED"} ELSE {})

(* The webhook writes the status of the event it handles, whatever the row shows. *)
RecordPayment(p, c, status) ==
    /\ Unlocked(c)
    /\ invoice[c].url
    /\ payRow[p].of \in {c, NoConsultation}
    /\ status \in EventStatus(p)
    /\ charge' = [charge EXCEPT ![p] = CASE status = "PENDING" -> @
                                         [] status = "FAILED" -> "FAILED"
                                         [] OTHER -> "COMPLETED"]
    /\ payRow' = [payRow EXCEPT ![p] = [status |-> status, of |-> c]]
    /\ wf' = [wf EXCEPT ![c] = SyncFromPayment(@, status)]
    /\ UNCHANGED <<intake, form, assessment, booking, invoice, linking>>

(* External: acceptance of a qualified intake, and withdrawal. *)
IntakeCloses(c) ==
    /\ Unlocked(c)
    /\ intake[c] \notin {"ACCEPTED", "DECLINED", "WITHDRAWN"}
    /\ \/ /\ \E a \in Assessments : assessment[a] = [of |-> c, qual |-> "QUALIFIED"]
          /\ intake' = [intake EXCEPT ![c] = "ACCEPTED"]
       \/ intake' = [intake EXCEPT ![c] = "WITHDRAWN"]
    /\ UNCHANGED <<form, wf, assessment, booking, invoice, payRow, charge, linking>>

TableStep ==
    \/ \E b \in Bookings, s \in BookingState \ {"NOT_BOOKED"}, t \in Times :
          BookingEvent(b, s, t)
    \/ \E c \in Consultations :
          \/ IssueLink(c)
          \/ \E s \in {"PAST_DUE", "VOID"} : OfficeCloses(c, s)
          \/ PromoteInvoice(c)
          \/ \E p \in Payments, s \in RowStatus : RecordPayment(p, c, s)
          \/ IntakeCloses(c)

PipelineNext == (\E c \in Consultations : RpcStep(c)) \/ TableStep

--------------------------------------------------------------------------------
Workflow ==
    [decision : OwnerDecision, booking : Bookings \cup {NoBooking}, state : BookingState,
     start : Times \cup {NoTime}, billed : BOOLEAN, pay : PaymentState, email : EmailState,
     cleared : BOOLEAN, completed : BOOLEAN, qual : Qualification,
     by : Assessments \cup {NoAssessment}]

PipelineTypeOK ==
    /\ intake \in [Consultations -> IntakeStatus]
    /\ form \in [Consultations -> FormStatus]
    /\ wf \in [Consultations -> Workflow]
    /\ assessment \in [Assessments -> [of : Consultations \cup {NoConsultation},
                                       qual : Qualification]]
    /\ booking \in [Bookings -> [state : BookingState, start : Times \cup {NoTime}]]
    /\ invoice \in [Consultations -> [status : InvoiceStatus, url : BOOLEAN]]
    /\ payRow \in [Payments -> [status : RowStatus, of : Consultations \cup {NoConsultation}]]
    /\ charge \in [Payments -> {"OPEN", "COMPLETED", "FAILED"}]
    /\ linking \in [Consultations -> [booking : Bookings \cup {NoBooking},
                                      state : BookingState, start : Times \cup {NoTime}]]

(* The client can change the answers only while the owner has not decided on
   them: the assignment is locked exactly while a final decision stands, and
   returned exactly while more information is asked for. *)
AssignmentFollowsDecision ==
    \A c \in Consultations :
        form[c] = CASE wf[c].decision = "NONE" -> "NONE"
                    [] wf[c].decision = "PENDING" -> "SUBMITTED"
                    [] wf[c].decision = "NEEDS_MORE_INFORMATION" -> "REVISION_REQUESTED"
                    [] OTHER -> "LOCKED"

(* However often a consultation is assessed, at most one assessment of the intake
   stands, and it is the one the workflow names and agrees with. *)
OneStandingAssessment ==
    \A c \in Consultations, a \in Assessments :
        assessment[a].of = c =>
            /\ wf[c].by # NoAssessment
            /\ assessment[a].qual # "NOT_QUALIFIED" => wf[c].by = a
            /\ wf[c].by = a => assessment[a].qual = wf[c].qual

(* No consultation is cleared, held or assessed without money: clearance, a
   completed consultation and a qualification each imply a payment recorded for the
   consultation's own invoice that Square completed, whatever its row shows by now. *)
WorkIsPaidFor ==
    \A c \in Consultations :
        (wf[c].cleared \/ wf[c].completed \/ wf[c].qual # "PENDING") => ChargedRows(c) # {}

(* Clearance and payment state do not part: a cleared consultation is PAID, unless a
   slow payment-link request has reopened its invoice. *)
ClearedIsPaid ==
    \A c \in Consultations :
        wf[c].cleared =>
            \/ wf[c].pay = "PAID"
            \/ Overlap /\ wf[c].pay = "DUE" /\ invoice[c].status = "OPEN"

(* The workflow shows the booking it is linked to: the same time, the same state
   (or COMPLETED, by the owner). *)
Shows(c) ==
    /\ wf[c].start = booking[wf[c].booking].start
    /\ wf[c].state \in {booking[wf[c].booking].state, "COMPLETED"}

(* What a running link has read of its booking is still so. *)
ReadHolds(c) ==
    /\ linking[c].booking # NoBooking
    /\ linking[c].state = booking[linking[c].booking].state
    /\ linking[c].start = booking[linking[c].booking].start

(* A step after which the workflow must show its booking: it did before, or the
   booking has just changed, or what a link has read and now writes is still so. *)
StaysInStep(c) ==
    /\ wf'[c].booking # NoBooking
    /\ IF wf'[c].booking = wf[c].booking
         THEN Shows(c) \/ booking'[wf[c].booking] # booking[wf[c].booking]
         ELSE ReadHolds(c)

(* Rebooked, rescheduled or cancelled, a linked workflow goes on showing its booking:
   every event of the booking puts it right, nothing but a new link puts it wrong,
   and that only if an event has come between the link's read and its write. *)
WorkflowFollowsBooking ==
    [][\A c \in Consultations : StaysInStep(c) => Shows(c)']_wfvars
================================================================================
