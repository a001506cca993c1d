--------------------------- MODULE ConsultationProofs ---------------------------
(***************************************************************************)
(* For every number of consultations, bookings, payments, assessments,     *)
(* overlapping requests, confirmations and faults: the state has its type, *)
(* answers are open exactly while the owner has not decided on them, at    *)
(* most one assessment of an intake stands, no consultation is cleared,    *)
(* held or qualified without a payment, and nothing claims a confirmation  *)
(* was sent that was not.                                                  *)
(*                                                                         *)
(* The first three are inductive over the pipeline once its rows have      *)
(* their types.  SentIsDelivered is not: an invocation writes SENT one and *)
(* two requests after the provider answered, so the invariant says what an *)
(* invocation in those states knows.  That what it knows is about a time   *)
(* at all rests on bookings: a linked consultation has a time, because the *)
(* booking it was linked to had one, and so had the link while it ran.     *)
(*                                                                         *)
(* The last part is about what overlapping requests may and may not do: a  *)
(* slow payment-link request leaves a cleared consultation OPEN and DUE,   *)
(* and that is the only way clearance and payment state part; and every    *)
(* event of a booking puts the workflow linked to it right, for the event  *)
(* waits for the workflow's lock.                                          *)
(***************************************************************************)
EXTENDS ConfirmationEmail, TLAPS

(* Whatever is booked, linked or being linked has a time. *)
BookedHasTime ==
    /\ \A b \in Bookings : booking[b].state # "NOT_BOOKED" => booking[b].start \in Times
    /\ \A c \in Consultations :
          /\ linking[c].booking # NoBooking => linking[c].start \in Times
          /\ wf[c].booking # NoBooking => wf[c].start \in Times

(* A successful row is of a payment Square completed. *)
RowsAreCharged ==
    \A p \in Payments : payRow[p].status = "SUCCEEDED" => charge[p] = "COMPLETED"

PipelineInv ==
    /\ PipelineTypeOK
    /\ RowsAreCharged
    /\ BookedHasTime
    /\ AssignmentFollowsDecision
    /\ OneStandingAssessment
    /\ WorkIsPaidFor

SenderRecord == [pc : SenderPC, c : Consultations \cup {NoConsultation},
                 t : Times \cup {NoTime}, known : BOOLEAN]

MailTypeOK ==
    /\ sender \in [Senders -> SenderRecord]
    /\ note \in [Consultations -> [Times -> NoteStatus]]
    /\ delivered \subseteq Consultations \X Times
    /\ faults \in 0..MaxFaults

(* A running invocation is about a consultation and a time of it, and one that is
   about to record success has had its e-mail sent. *)
Knowing(k, sent) ==
    /\ k.pc # "idle" => k.c \in Consultations /\ k.t \in Times
    /\ k.pc \in {"noteSent", "markSent"} => <<k.c, k.t>> \in sent

SendersKnow == \A s \in Senders : Knowing(sender[s], delivered)

IInv == PipelineInv /\ MailTypeOK /\ SendersKnow /\ SentIsDelivered

--------------------------------------------------------------------------------
(* What a step leaves alone, by the part of the invariant that looks at it. *)
KeepsDecisions ==
    \A c \in Consultations : form'[c] = form[c] /\ wf'[c].decision = wf[c].decision

KeepsAssessments ==
    /\ assessment' = assessment
    /\ \A c \in Consultations : wf'[c].by = wf[c].by /\ wf'[c].qual = wf[c].qual

KeepsWork ==
    /\ UNCHANGED <<payRow, charge>>
    /\ \A c \in Consultations : /\ wf'[c].cleared => wf[c].cleared
                                /\ wf'[c].completed => wf[c].completed
                                /\ wf'[c].qual = wf[c].qual

KeepsTimes ==
    /\ UNCHANGED <<booking, linking>>
    /\ \A c \in Consultations : wf'[c].booking = wf[c].booking /\ wf'[c].start = wf[c].start

LEMMA Kept ==
    ASSUME PipelineInv
    PROVE  /\ KeepsDecisions => AssignmentFollowsDecision'
           /\ KeepsAssessments => OneStandingAssessment'
           /\ KeepsWork => WorkIsPaidFor' /\ RowsAreCharged'
           /\ UNCHANGED <<payRow, charge>> => RowsAreCharged'
           /\ KeepsTimes => BookedHasTime'
<1>1. KeepsDecisions => AssignmentFollowsDecision'
  BY DEF PipelineInv, KeepsDecisions, AssignmentFollowsDecision
<1>2. KeepsAssessments => OneStandingAssessment'
  BY DEF PipelineInv, KeepsAssessments, OneStandingAssessment
<1>3. KeepsWork => WorkIsPaidFor'
  BY DEF PipelineInv, KeepsWork, WorkIsPaidFor, ChargedRows
<1>5. UNCHANGED <<payRow, charge>> => RowsAreCharged'
  BY DEF PipelineInv, RowsAreCharged
<1>6. KeepsWork => UNCHANGED <<payRow, charge>>
  BY DEF KeepsWork
<1>4. KeepsTimes => BookedHasTime'
  BY DEF PipelineInv, KeepsTimes, BookedHasTime
<1> QED
  BY <1>1, <1>2, <1>3, <1>4, <1>5, <1>6

(* An update of one workflow row. *)
LEMMA RowUpdate ==
    ASSUME PipelineTypeOK, NEW c \in Consultations, NEW w \in Workflow,
           wf' = [wf EXCEPT ![c] = w]
    PROVE  /\ wf' \in [Consultations -> Workflow]
           /\ \A d \in Consultations : wf'[d] = IF d = c THEN w ELSE wf[d]
BY DEF PipelineTypeOK

LEMMA Rows ==
    ASSUME PipelineTypeOK, NEW c \in Consultations
    PROVE  wf[c] \in Workflow
BY DEF PipelineTypeOK

(* The triggers write workflow rows, and touch neither the decision nor the
   qualification nor the link; a clearance they give comes with a payment. *)
LEMMA SyncBookingRow ==
    ASSUME NEW w \in Workflow, NEW state \in BookingState, NEW start \in Times
    PROVE  LET r == SyncFromBooking(w, state, start) IN
           /\ r \in Workflow /\ r.decision = w.decision /\ r.by = w.by /\ r.qual = w.qual
           /\ r.booking = w.booking /\ r.completed = w.completed /\ r.start = start
           /\ r.cleared => w.cleared
           /\ r.email = "SENT" => w.email = "SENT"
BY DEF SyncFromBooking, Workflow

LEMMA SyncInvoiceRow ==
    ASSUME NEW w \in Workflow, NEW status \in InvoiceStatus, NEW url \in BOOLEAN
    PROVE  LET r == SyncFromInvoice(w, status, url) IN
           /\ r \in Workflow /\ r.decision = w.decision /\ r.by = w.by /\ r.qual = w.qual
           /\ r.booking = w.booking /\ r.completed = w.completed /\ r.start = w.start
           /\ r.cleared => w.cleared \/ status = "PAID"
           /\ r.email = "SENT" => w.email = "SENT"
BY DEF SyncFromInvoice, Workflow, PaymentState, EmailState

LEMMA SyncPaymentRow ==
    ASSUME NEW w \in Workflow, NEW status \in RowStatus
    PROVE  LET r == SyncFromPayment(w, status) IN
           /\ r \in Workflow /\ r.decision = w.decision /\ r.by = w.by /\ r.qual = w.qual
           /\ r.booking = w.booking /\ r.completed = w.completed /\ r.start = w.start
           /\ r.cleared => w.cleared \/ status = "SUCCEEDED"
           /\ r.email = "SENT" => w.email = "SENT"
BY DEF SyncFromPayment, Workflow, PaymentState, RowStatus

--------------------------------------------------------------------------------
(* The submission of answers and the owner's decision: the answers follow. *)
LEMMA DecisionSteps ==
    ASSUME PipelineInv, NEW c \in Consultations,
           \/ SubmitAssignment(c)
           \/ \E d \in OwnerDecision \ {"NONE", "PENDING"} : DecideConsultation(c, d)
    PROVE  PipelineInv' /\ \A x \in Consultations : wf'[x].email = wf[x].email
<1>1. PICK d \in OwnerDecision, f \in FormStatus, i \in IntakeStatus :
         /\ f = CASE d = "NONE" -> "NONE" [] d = "PENDING" -> "SUBMITTED"
                  [] d = "NEEDS_MORE_INFORMATION" -> "REVISION_REQUESTED" [] OTHER -> "LOCKED"
         /\ wf' = [wf EXCEPT ![c] = [wf[c] EXCEPT !.decision = d]]
         /\ form' = [form EXCEPT ![c] = f]
         /\ intake' = [intake EXCEPT ![c] = i]
         /\ UNCHANGED <<assessment, booking, invoice, payRow, charge, linking>>
  <2>1. CASE SubmitAssignment(c)
    <3>1. "PENDING" \in OwnerDecision /\ "SUBMITTED" \in FormStatus /\ "IN_REVIEW" \in IntakeStatus
      BY DEF OwnerDecision, FormStatus, IntakeStatus
    <3> QED
      BY <2>1, <3>1 DEF SubmitAssignment
  <2>2. ASSUME NEW d \in OwnerDecision \ {"NONE", "PENDING"}, DecideConsultation(c, d)
        PROVE  \E f \in FormStatus, i \in IntakeStatus :
                  /\ f = IF d = "NEEDS_MORE_INFORMATION" THEN "REVISION_REQUESTED" ELSE "LOCKED"
                  /\ wf' = [wf EXCEPT ![c] = [wf[c] EXCEPT !.decision = d]]
                  /\ form' = [form EXCEPT ![c] = f]
                  /\ intake' = [intake EXCEPT ![c] = i]
                  /\ UNCHANGED <<assessment, booking, invoice, payRow, charge, linking>>
    BY <2>2 DEF DecideConsultation, OwnerDecision, FormStatus, IntakeStatus
  <2>3. ASSUME NEW d \in OwnerDecision \ {"NONE", "PENDING"}, NEW f,
               f = IF d = "NEEDS_MORE_INFORMATION" THEN "REVISION_REQUESTED" ELSE "LOCKED"
        PROVE  f = CASE d = "NONE" -> "NONE" [] d = "PENDING" -> "SUBMITTED"
                     [] d = "NEEDS_MORE_INFORMATION" -> "REVISION_REQUESTED"
                     [] OTHER -> "LOCKED"
    BY <2>3 DEF OwnerDecision
  <2> QED
    BY <2>1, <2>2, <2>3
<1> DEFINE w == [wf[c] EXCEPT !.decision = d]
<1>2. wf[c] \in Workflow
  BY Rows DEF PipelineInv
<1>3. /\ w \in Workflow /\ w.decision = d
      /\ w.by = wf[c].by /\ w.qual = wf[c].qual /\ w.cleared = wf[c].cleared
      /\ w.completed = wf[c].completed /\ w.booking = wf[c].booking /\ w.start = wf[c].start
      /\ w.email = wf[c].email
  BY <1>2 DEF Workflow
<1> HIDE DEF w
<1>4. /\ wf' \in [Consultations -> Workflow]
      /\ \A x \in Consultations : wf'[x] = IF x = c THEN w ELSE wf[x]
  BY <1>1, <1>3, RowUpdate DEF PipelineInv, w
<1>5. \A x \in Consultations : form'[x] = IF x = c THEN f ELSE form[x]
  BY <1>1 DEF PipelineInv, PipelineTypeOK
<1>6. PipelineTypeOK'
  BY <1>1, <1>4 DEF PipelineInv, PipelineTypeOK
<1>7. AssignmentFollowsDecision'
  <2> SUFFICES ASSUME NEW x \in Consultations
               PROVE  form'[x] = CASE wf'[x].decision = "NONE" -> "NONE"
                          [] wf'[x].decision = "PENDING" -> "SUBMITTED"
                          [] wf'[x].decision = "NEEDS_MORE_INFORMATION" -> "REVISION_REQUESTED"
                          [] OTHER -> "LOCKED"
    BY DEF AssignmentFollowsDecision
  <2> QED
    BY <1>1, <1>3, <1>4, <1>5 DEF PipelineInv, AssignmentFollowsDecision
<1>8. KeepsAssessments /\ KeepsWork /\ KeepsTimes
  BY <1>1, <1>3, <1>4 DEF KeepsAssessments, KeepsWork, KeepsTimes
<1> QED
  BY <1>3, <1>4, <1>6, <1>7, <1>8, Kept DEF PipelineInv

(* The linking of a booking: a link keeps the time it has read. *)
LEMMA LinkSteps ==
    ASSUME PipelineInv, NEW c \in Consultations,
           (\E b \in Bookings : LinkReads(c, b)) \/ LinkWrites(c)
    PROVE  PipelineInv' /\ \A x \in Consultations : wf'[x].email = "SENT" => wf[x].email = "SENT"
<1>1. wf[c] \in Workflow /\ wf \in [Consultations -> Workflow]
  BY DEF PipelineInv, PipelineTypeOK
<1>2. /\ linking[c].booking \in Bookings \cup {NoBooking} /\ linking[c].state \in BookingState
      /\ linking[c].start \in Times \cup {NoTime}
  BY DEF PipelineInv, PipelineTypeOK
<1>3. CASE \E b \in Bookings : LinkReads(c, b)
  <2>1. PICK b \in Bookings :
           /\ linking' = [linking EXCEPT ![c] = [booking |-> b, state |-> booking[b].state,
                                                 start |-> booking[b].start]]
           /\ booking[b].state # "NOT_BOOKED"
           /\ UNCHANGED <<intake, form, wf, assessment, booking, invoice, payRow, charge>>
    BY <1>3 DEF LinkReads
  <2>2. booking[b].start \in Times /\ booking[b].state \in BookingState
    BY <2>1 DEF PipelineInv, PipelineTypeOK, BookedHasTime
  <2>3. PipelineTypeOK'
    BY <2>1, <2>2 DEF PipelineInv, PipelineTypeOK
  <2>4. BookedHasTime'
    <3>1. \A x \in Consultations :
             linking'[x] = IF x = c THEN [booking |-> b, state |-> booking[b].state,
                                          start |-> booking[b].start] ELSE linking[x]
      BY <2>1 DEF PipelineInv, PipelineTypeOK
    <3> QED
      BY <2>1, <2>2, <3>1 DEF PipelineInv, BookedHasTime
  <2>5. KeepsDecisions /\ KeepsAssessments /\ KeepsWork
    BY <2>1 DEF KeepsDecisions, KeepsAssessments, KeepsWork
  <2> QED
    BY <2>1, <2>3, <2>4, <2>5, Kept DEF PipelineInv
<1>4. CASE LinkWrites(c)
  <2> DEFINE w == [wf[c] EXCEPT !.booking = linking[c].booking, !.state = linking[c].state,
                                !.start = linking[c].start, !.email = "NOT_READY"]
  <2>1. /\ w \in Workflow /\ w.decision = wf[c].decision
        /\ w.by = wf[c].by /\ w.qual = wf[c].qual /\ w.cleared = wf[c].cleared
        /\ w.completed = wf[c].completed /\ w.booking = linking[c].booking
        /\ w.start = linking[c].start /\ w.email = "NOT_READY"
    BY <1>1, <1>2 DEF Workflow, EmailState
  <2>2. /\ wf' = wf \/ wf' = [wf EXCEPT ![c] = w]
        /\ linking' = [linking EXCEPT ![c] = NoLink]
        /\ UNCHANGED <<intake, form, assessment, booking, invoice, payRow, charge>>
    BY <1>4 DEF LinkWrites
  <2> HIDE DEF w
  <2>3. /\ wf' \in [Consultations -> Workflow]
        /\ \A x \in Consultations : wf'[x] \in {wf[x], IF x = c THEN w ELSE wf[x]}
    BY <1>1, <2>1, <2>2
  <2>4. NoLink \in [booking : Bookings \cup {NoBooking}, state : BookingState,
                    start : Times \cup {NoTime}] /\ NoLink.booking = NoBooking
    BY DEF NoLink, BookingState
  <2>5. \A x \in Consultations : linking'[x] = IF x = c THEN NoLink ELSE linking[x]
    BY <2>2 DEF PipelineInv, PipelineTypeOK
  <2>6. PipelineTypeOK'
    BY <2>2, <2>3, <2>4 DEF PipelineInv, PipelineTypeOK
  <2>7. BookedHasTime'
    BY <2>1, <2>2, <2>3, <2>4, <2>5 DEF PipelineInv, BookedHasTime
  <2>8. KeepsDecisions /\ KeepsAssessments /\ KeepsWork
    BY <2>1, <2>2, <2>3 DEF KeepsDecisions, KeepsAssessments, KeepsWork
  <2> QED
    BY <2>1, <2>3, <2>6, <2>7, <2>8, Kept DEF PipelineInv
<1> QED
  BY <1>3, <1>4

(* The preparation of the invoice and the end of the consultation. *)
LEMMA WorkSteps ==
    ASSUME PipelineInv, NEW c \in Consultations, PrepareInvoice(c) \/ MarkCompleted(c)
    PROVE  PipelineInv' /\ \A x \in Consultations : wf'[x].email = wf[x].email
<1>1. wf[c] \in Workflow
  BY Rows DEF PipelineInv
<1>2. PICK w \in Workflow :
         /\ wf' = [wf EXCEPT ![c] = w]
         /\ w.decision = wf[c].decision
         /\ w.by = wf[c].by /\ w.qual = wf[c].qual /\ w.cleared = wf[c].cleared
         /\ w.completed => wf[c].completed \/ wf[c].cleared
         /\ w.booking = wf[c].booking
         /\ w.start = wf[c].start /\ w.email = wf[c].email
  <2>1. CASE PrepareInvoice(c)
    <3> DEFINE w == [wf[c] EXCEPT !.billed = TRUE, !.pay = "DUE"]
    <3>1. /\ w \in Workflow /\ w.decision = wf[c].decision
          /\ w.by = wf[c].by /\ w.qual = wf[c].qual /\ w.cleared = wf[c].cleared
          /\ w.completed = wf[c].completed /\ w.booking = wf[c].booking
          /\ w.start = wf[c].start /\ w.email = wf[c].email
      BY <1>1 DEF Workflow, PaymentState
    <3>2. wf' = [wf EXCEPT ![c] = w]
      BY <2>1 DEF PrepareInvoice
    <3> HIDE DEF w
    <3> QED
      BY <3>1, <3>2
  <2>2. CASE MarkCompleted(c)
    <3> DEFINE w == [wf[c] EXCEPT !.completed = TRUE, !.state = "COMPLETED"]
    <3>1. /\ w \in Workflow /\ w.decision = wf[c].decision
          /\ w.by = wf[c].by /\ w.qual = wf[c].qual /\ w.cleared = wf[c].cleared
          /\ w.booking = wf[c].booking
          /\ w.start = wf[c].start /\ w.email = wf[c].email
      BY <1>1 DEF Workflow, BookingState
    <3>2. wf' = [wf EXCEPT ![c] = w] /\ wf[c].cleared
      BY <2>2 DEF MarkCompleted, Completable
    <3> HIDE DEF w
    <3> QED
      BY <3>1, <3>2
  <2> QED
    BY <2>1, <2>2
<1>3. /\ wf' \in [Consultations -> Workflow]
      /\ \A x \in Consultations : wf'[x] = IF x = c THEN w ELSE wf[x]
  BY <1>2, RowUpdate DEF PipelineInv
<1>4. /\ UNCHANGED <<intake, form, assessment, booking, payRow, charge, linking>>
      /\ invoice' \in [Consultations -> [status : InvoiceStatus, url : BOOLEAN]]
  <2>1. invoice \in [Consultations -> [status : InvoiceStatus, url : BOOLEAN]]
    BY DEF PipelineInv, PipelineTypeOK
  <2>2. CASE PrepareInvoice(c)
    <3>1. [status |-> "DRAFT", url |-> FALSE] \in [status : InvoiceStatus, url : BOOLEAN]
      BY DEF InvoiceStatus
    <3> QED
      BY <2>1, <2>2, <3>1 DEF PrepareInvoice
  <2>3. CASE MarkCompleted(c)
    BY <2>1, <2>3 DEF MarkCompleted
  <2> QED
    BY <2>2, <2>3
<1>5. PipelineTypeOK'
  BY <1>3, <1>4 DEF PipelineInv, PipelineTypeOK
<1>6. WorkIsPaidFor'
  BY <1>2, <1>3, <1>4 DEF PipelineInv, WorkIsPaidFor, ChargedRows
<1>7. KeepsDecisions /\ KeepsAssessments /\ KeepsTimes
  BY <1>2, <1>3, <1>4 DEF KeepsDecisions, KeepsAssessments, KeepsTimes
<1> QED
  BY <1>2, <1>3, <1>4, <1>5, <1>6, <1>7, Kept DEF PipelineInv

--------------------------------------------------------------------------------
(* The assessment after the consultation: a fresh row stands, earlier ones fall. *)
LEMMA AssessmentStep ==
    ASSUME PipelineInv, NEW c \in Consultations, NEW a \in Assessments,
           NEW q \in Qualification \ {"PENDING"}, RecordConsultation(c, a, q)
    PROVE  PipelineInv' /\ \A x \in Consultations : wf'[x].email = wf[x].email
<1> DEFINE w == [wf[c] EXCEPT !.qual = q, !.by = a]
           Row == [of : Consultations \cup {NoConsultation}, qual : Qualification]
<1>1. wf[c] \in Workflow /\ assessment \in [Assessments -> Row]
  BY DEF PipelineInv, PipelineTypeOK
<1>2. /\ w \in Workflow /\ w.decision = wf[c].decision
      /\ w.by = a /\ w.qual = q /\ w.cleared = wf[c].cleared
      /\ w.completed = wf[c].completed /\ w.booking = wf[c].booking
      /\ w.start = wf[c].start /\ w.email = wf[c].email
  BY <1>1 DEF Workflow
<1>3. /\ wf' = [wf EXCEPT ![c] = w] /\ wf[c].cleared
      /\ assessment[a].of = NoConsultation
      /\ assessment' = [Supersede(c) EXCEPT ![a] = [of |-> c, qual |-> q]]
      /\ intake' = [intake EXCEPT ![c] = IF q = "NOT_QUALIFIED" THEN "DECLINED" ELSE "IN_REVIEW"]
      /\ UNCHANGED <<form, booking, invoice, payRow, charge, linking>>
  BY DEF RecordConsultation
<1> HIDE DEF w
<1>4. /\ wf' \in [Consultations -> Workflow]
      /\ \A x \in Consultations : wf'[x] = IF x = c THEN w ELSE wf[x]
  BY <1>2, <1>3, RowUpdate DEF PipelineInv
<1>5. /\ assessment' \in [Assessments -> Row]
      /\ assessment'[a].of = c /\ assessment'[a].qual = q
      /\ \A x \in Assessments \ {a} :
            /\ assessment'[x].of = assessment[x].of
            /\ assessment[x].of = c => assessment'[x].qual = "NOT_QUALIFIED"
            /\ assessment[x].of # c => assessment'[x].qual = assessment[x].qual
  <2>1. \A x \in Assessments :
           LET r == IF assessment[x].of = c
                      THEN [assessment[x] EXCEPT !.qual = "NOT_QUALIFIED"] ELSE assessment[x]
           IN  /\ r \in Row /\ r.of = assessment[x].of
               /\ r.qual = IF assessment[x].of = c THEN "NOT_QUALIFIED" ELSE assessment[x].qual
    BY <1>1 DEF Qualification
  <2>2. Supersede(c) \in [Assessments -> Row]
    BY <2>1 DEF Supersede
  <2>3. [of |-> c, qual |-> q] \in Row
    OBVIOUS
  <2> HIDE DEF Row
  <2>4. /\ assessment' \in [Assessments -> Row]
        /\ \A x \in Assessments :
              assessment'[x] = IF x = a THEN [of |-> c, qual |-> q] ELSE Supersede(c)[x]
    BY <1>3, <2>2, <2>3
  <2>5. \A x \in Assessments :
           /\ Supersede(c)[x].of = assessment[x].of
           /\ Supersede(c)[x].qual = IF assessment[x].of = c THEN "NOT_QUALIFIED"
                                                           ELSE assessment[x].qual
    BY <2>1 DEF Supersede
  <2> QED
    BY <2>4, <2>5
<1>6. PipelineTypeOK'
  <2>1. intake' \in [Consultations -> IntakeStatus]
    BY <1>3 DEF PipelineInv, PipelineTypeOK, IntakeStatus
  <2> QED
    BY <1>3, <1>4, <1>5, <2>1 DEF PipelineInv, PipelineTypeOK
<1>7. OneStandingAssessment'
  <2> SUFFICES ASSUME NEW x \in Consultations, NEW y \in Assessments, assessment'[y].of = x
               PROVE  /\ wf'[x].by # NoAssessment
                      /\ assessment'[y].qual # "NOT_QUALIFIED" => wf'[x].by = y
                      /\ wf'[x].by = y => assessment'[y].qual = wf'[x].qual
    BY DEF OneStandingAssessment
  <2>1. CASE x = c
    BY <1>2, <1>4, <1>5, <2>1, ConsultationAssumption
  <2>2. CASE x # c
    <3>1. y # a /\ assessment[y].of = x /\ assessment'[y].qual = assessment[y].qual
      BY <1>5, <2>2
    <3> QED
      BY <1>4, <2>2, <3>1 DEF PipelineInv, OneStandingAssessment
  <2> QED
    BY <2>1, <2>2
<1>8. WorkIsPaidFor'
  BY <1>2, <1>3, <1>4 DEF PipelineInv, WorkIsPaidFor, ChargedRows
<1>9. KeepsDecisions /\ KeepsTimes
  BY <1>2, <1>3, <1>4 DEF KeepsDecisions, KeepsTimes
<1> QED
  BY <1>2, <1>3, <1>4, <1>6, <1>7, <1>8, <1>9, Kept DEF PipelineInv

(* Steps that only change the status of an intake. *)
LEMMA IntakeSteps ==
    ASSUME PipelineInv, NEW c \in Consultations,
           IntakeCloses(c) \/ \E s \in {"IN_REVIEW", "DECLINED"} : OfficeSetsStatus(c, s)
    PROVE  PipelineInv' /\ wf' = wf
<1>1. /\ intake' \in [Consultations -> IntakeStatus]
      /\ UNCHANGED <<form, wf, assessment, booking, invoice, payRow, charge, linking>>
  BY DEF IntakeCloses, OfficeSetsStatus, PipelineInv, PipelineTypeOK, IntakeStatus
<1>2. PipelineTypeOK'
  BY <1>1 DEF PipelineInv, PipelineTypeOK
<1>3. KeepsDecisions /\ KeepsAssessments /\ KeepsWork /\ KeepsTimes
  BY <1>1 DEF KeepsDecisions, KeepsAssessments, KeepsWork, KeepsTimes
<1> QED
  BY <1>1, <1>2, <1>3, Kept DEF PipelineInv

--------------------------------------------------------------------------------
(* A booking event gives the booking, and the consultation linked to it, a time. *)
LEMMA BookingStep ==
    ASSUME PipelineInv, NEW b \in Bookings, NEW s \in BookingState \ {"NOT_BOOKED"},
           NEW t \in Times, BookingEvent(b, s, t)
    PROVE  PipelineInv' /\ \A x \in Consultations : wf'[x].email = "SENT" => wf[x].email = "SENT"
<1>1. /\ booking' = [booking EXCEPT ![b] = [state |-> s, start |-> t]]
      /\ wf' = [c \in Consultations |->
                  IF wf[c].booking = b THEN SyncFromBooking(wf[c], s, t) ELSE wf[c]]
      /\ UNCHANGED <<intake, form, assessment, invoice, payRow, charge, linking>>
  BY DEF BookingEvent
<1>2. \A c \in Consultations :
         LET r == SyncFromBooking(wf[c], s, t) IN
         /\ r \in Workflow /\ r.decision = wf[c].decision
         /\ r.by = wf[c].by /\ r.qual = wf[c].qual /\ r.booking = wf[c].booking
         /\ r.completed = wf[c].completed /\ r.start = t
         /\ r.cleared => wf[c].cleared
         /\ r.email = "SENT" => wf[c].email = "SENT"
  <2> SUFFICES ASSUME NEW c \in Consultations
               PROVE  LET r == SyncFromBooking(wf[c], s, t) IN
                      /\ r \in Workflow /\ r.decision = wf[c].decision
                      /\ r.by = wf[c].by /\ r.qual = wf[c].qual /\ r.booking = wf[c].booking
                      /\ r.completed = wf[c].completed /\ r.start = t
                      /\ r.cleared => wf[c].cleared
                      /\ r.email = "SENT" => wf[c].email = "SENT"
    OBVIOUS
  <2>1. wf[c] \in Workflow
    BY Rows DEF PipelineInv
  <2> QED
    BY <2>1, SyncBookingRow
<1>3. /\ wf' \in [Consultations -> Workflow]
      /\ \A c \in Consultations :
            /\ wf'[c].decision = wf[c].decision
            /\ wf'[c].by = wf[c].by /\ wf'[c].qual = wf[c].qual
            /\ wf'[c].booking = wf[c].booking /\ wf'[c].completed = wf[c].completed
            /\ wf'[c].start = IF wf[c].booking = b THEN t ELSE wf[c].start
            /\ wf'[c].cleared => wf[c].cleared
            /\ wf'[c].email = "SENT" => wf[c].email = "SENT"
  BY <1>1, <1>2, Rows DEF PipelineInv
<1>4. \A x \in Bookings : booking'[x] = IF x = b THEN [state |-> s, start |-> t] ELSE booking[x]
  BY <1>1 DEF PipelineInv, PipelineTypeOK
<1>5. PipelineTypeOK'
  BY <1>1, <1>3 DEF PipelineInv, PipelineTypeOK
<1>6. BookedHasTime'
  BY <1>1, <1>3, <1>4 DEF PipelineInv, BookedHasTime
<1>7. KeepsDecisions /\ KeepsAssessments /\ KeepsWork
  BY <1>1, <1>3 DEF KeepsDecisions, KeepsAssessments, KeepsWork
<1> QED
  BY <1>3, <1>5, <1>6, <1>7, Kept DEF PipelineInv

(* Covering payments are not none, and Square completed them. *)
LEMMA CoveredIsPaid ==
    ASSUME RowsAreCharged, NEW c, PaidRows(c) \in Enough \/ ChargedRows(c) \in Enough
    PROVE  ChargedRows(c) # {}
<1>1. PaidRows(c) \subseteq ChargedRows(c)
  BY DEF RowsAreCharged, PaidRows, ChargedRows
<1> QED
  BY <1>1, ConsultationAssumption

(* An invoice write clears a consultation only when it is paid. *)
LEMMA InvoiceSteps ==
    ASSUME PipelineInv, NEW c \in Consultations,
           \/ IssueLink(c) \/ PromoteInvoice(c)
           \/ \E s \in {"PAST_DUE", "VOID"} : OfficeCloses(c, s)
    PROVE  PipelineInv' /\ \A x \in Consultations : wf'[x].email = "SENT" => wf[x].email = "SENT"
<1>1. invoice[c].url \in BOOLEAN /\ wf[c] \in Workflow
  BY DEF PipelineInv, PipelineTypeOK
<1>2. PICK status \in {"OPEN", "PAST_DUE", "VOID", "PAID"}, url \in BOOLEAN :
         /\ SetInvoice(c, status, url)
         /\ status = "PAID" => PaidRows(c) \in Enough \/ ChargedRows(c) \in Enough
  BY <1>1 DEF IssueLink, PromoteInvoice, OfficeCloses
<1> DEFINE w == SyncFromInvoice(wf[c], status, url)
<1>3. /\ w \in Workflow /\ w.decision = wf[c].decision
      /\ w.by = wf[c].by /\ w.qual = wf[c].qual /\ w.booking = wf[c].booking
      /\ w.completed = wf[c].completed /\ w.start = wf[c].start
      /\ w.cleared => wf[c].cleared \/ status = "PAID"
      /\ w.email = "SENT" => wf[c].email = "SENT"
  <2>1. status \in InvoiceStatus
    BY DEF InvoiceStatus
  <2> QED
    BY <1>1, <2>1, SyncInvoiceRow
<1> HIDE DEF w
<1>4. /\ wf' = [wf EXCEPT ![c] = w]
      /\ invoice' = [invoice EXCEPT ![c] = [status |-> status, url |-> url]]
      /\ UNCHANGED <<intake, form, assessment, booking, payRow, charge, linking>>
  BY <1>2 DEF SetInvoice, w
<1>5. /\ wf' \in [Consultations -> Workflow]
      /\ \A x \in Consultations : wf'[x] = IF x = c THEN w ELSE wf[x]
  BY <1>3, <1>4, RowUpdate DEF PipelineInv
<1>6. PipelineTypeOK'
  <2>1. [status |-> status, url |-> url] \in [status : InvoiceStatus, url : BOOLEAN]
    BY DEF InvoiceStatus
  <2> QED
    BY <1>4, <1>5, <2>1 DEF PipelineInv, PipelineTypeOK
<1>7. WorkIsPaidFor' /\ RowsAreCharged'
  <2>1. RowsAreCharged' /\ \A x : ChargedRows(x)' = ChargedRows(x)
    BY <1>4 DEF PipelineInv, RowsAreCharged, ChargedRows
  <2>2. status = "PAID" => ChargedRows(c) # {}
    BY <1>2, CoveredIsPaid DEF PipelineInv
  <2> QED
    BY <1>3, <1>5, <2>1, <2>2 DEF PipelineInv, WorkIsPaidFor
<1>8. KeepsDecisions /\ KeepsAssessments /\ KeepsTimes
  BY <1>3, <1>4, <1>5 DEF KeepsDecisions, KeepsAssessments, KeepsTimes
<1> QED
  BY <1>3, <1>5, <1>6, <1>7, <1>8, Kept DEF PipelineInv

(* A recorded payment stays with its consultation, and what Square completed stays
   completed whatever status is written. *)
LEMMA PaymentStep ==
    ASSUME PipelineInv, NEW c \in Consultations, NEW p \in Payments, NEW s \in RowStatus,
           RecordPayment(p, c, s)
    PROVE  PipelineInv' /\ \A x \in Consultations : wf'[x].email = "SENT" => wf[x].email = "SENT"
<1> DEFINE w == SyncFromPayment(wf[c], s)
           e == CASE s = "PENDING" -> charge[p] [] s = "FAILED" -> "FAILED" [] OTHER -> "COMPLETED"
<1>1. wf[c] \in Workflow /\ charge[p] \in {"OPEN", "COMPLETED", "FAILED"}
  BY Rows DEF PipelineInv, PipelineTypeOK
<1>2. /\ w \in Workflow /\ w.decision = wf[c].decision
      /\ w.by = wf[c].by /\ w.qual = wf[c].qual /\ w.booking = wf[c].booking
      /\ w.completed = wf[c].completed /\ w.start = wf[c].start
      /\ w.cleared => wf[c].cleared \/ s = "SUCCEEDED"
      /\ w.email = "SENT" => wf[c].email = "SENT"
  BY <1>1, SyncPaymentRow
<1>3. /\ wf' = [wf EXCEPT ![c] = w]
      /\ payRow' = [payRow EXCEPT ![p] = [status |-> s, of |-> c]]
      /\ charge' = [charge EXCEPT ![p] = e]
      /\ payRow[p].of \in {c, NoConsultation}
      /\ UNCHANGED <<intake, form, assessment, booking, invoice, linking>>
  BY DEF RecordPayment
<1>4. /\ charge[p] = "COMPLETED" => e = "COMPLETED"
      /\ s = "SUCCEEDED" => e = "COMPLETED"
      /\ e \in {"OPEN", "COMPLETED", "FAILED"}
  <2>1. s \in EventStatus(p)
    BY DEF RecordPayment
  <2>2. s = "FAILED" => charge[p] # "COMPLETED"
    BY <2>1 DEF EventStatus
  <2> QED
    BY <1>1, <2>2
<1> HIDE DEF w, e
<1>5. /\ wf' \in [Consultations -> Workflow]
      /\ \A x \in Consultations : wf'[x] = IF x = c THEN w ELSE wf[x]
  BY <1>2, <1>3, RowUpdate DEF PipelineInv
<1>6. \A x \in Payments : /\ payRow'[x] = IF x = p THEN [status |-> s, of |-> c] ELSE payRow[x]
                          /\ charge'[x] = IF x = p THEN e ELSE charge[x]
  BY <1>3 DEF PipelineInv, PipelineTypeOK
<1>7. PipelineTypeOK'
  BY <1>3, <1>4, <1>5 DEF PipelineInv, PipelineTypeOK
<1>8. WorkIsPaidFor'
  <2>1. \A x \in Consultations : ChargedRows(x) \subseteq ChargedRows(x)'
    BY <1>3, <1>4, <1>6, ConsultationAssumption DEF ChargedRows
  <2>2. s = "SUCCEEDED" => p \in ChargedRows(c)'
    BY <1>4, <1>6 DEF ChargedRows
  <2> QED
    BY <1>2, <1>5, <2>1, <2>2 DEF PipelineInv, WorkIsPaidFor
<1>9. RowsAreCharged'
  BY <1>4, <1>6 DEF PipelineInv, RowsAreCharged
<1>10. KeepsDecisions /\ KeepsAssessments /\ KeepsTimes
  BY <1>2, <1>3, <1>5 DEF KeepsDecisions, KeepsAssessments, KeepsTimes
<1> QED
  BY <1>2, <1>5, <1>7, <1>8, <1>9, <1>10, Kept DEF PipelineInv

LEMMA PipelineStep ==
    ASSUME PipelineInv, PipelineNext
    PROVE  PipelineInv' /\ \A x \in Consultations : wf'[x].email = "SENT" => wf[x].email = "SENT"
<1>1. CASE \E c \in Consultations : RpcStep(c)
  <2>1. PICK c \in Consultations : RpcStep(c)
    BY <1>1
  <2> QED
    BY <2>1, DecisionSteps, LinkSteps, WorkSteps, AssessmentStep, IntakeSteps DEF RpcStep
<1>2. CASE TableStep
  BY <1>2, BookingStep, InvoiceSteps, PaymentStep, IntakeSteps DEF TableStep
<1> QED
  BY <1>1, <1>2 DEF PipelineNext

--------------------------------------------------------------------------------
(* The requests of the confirmation function write nothing of the workflow but its
   e-mail state. *)
LEMMA EmailWrites ==
    ASSUME PipelineInv, NEW s \in Senders, sender[s].c \in Consultations,
           NEW state \in EmailState, PatchWorkflow(s, state) \/ UNCHANGED wfvars
    PROVE  /\ PipelineInv'
           /\ \A x \in Consultations :
                 wf'[x].email = "SENT" => \/ wf[x].email = "SENT"
                                          \/ x = sender[s].c /\ state = "SENT"
<1> DEFINE c == sender[s].c
           w == [wf[c] EXCEPT !.email = state]
<1>1. wf[c] \in Workflow
  BY Rows DEF PipelineInv
<1>2. /\ w \in Workflow /\ w.decision = wf[c].decision
      /\ w.by = wf[c].by /\ w.qual = wf[c].qual /\ w.cleared = wf[c].cleared
      /\ w.completed = wf[c].completed /\ w.booking = wf[c].booking
      /\ w.start = wf[c].start /\ w.email = state
  BY <1>1 DEF Workflow
<1>3. /\ wf' = wf \/ wf' = [wf EXCEPT ![c] = w]
      /\ UNCHANGED <<intake, form, assessment, booking, invoice, payRow, charge, linking>>
  BY DEF PatchWorkflow, wfvars
<1> HIDE DEF w
<1>4. /\ wf' \in [Consultations -> Workflow]
      /\ \A x \in Consultations : wf'[x] \in {wf[x], IF x = c THEN w ELSE wf[x]}
  BY <1>2, <1>3, RowUpdate DEF PipelineInv, PipelineTypeOK
<1>5. PipelineTypeOK'
  BY <1>3, <1>4 DEF PipelineInv, PipelineTypeOK
<1>6. KeepsDecisions /\ KeepsAssessments /\ KeepsWork /\ KeepsTimes
  BY <1>2, <1>3, <1>4 DEF KeepsDecisions, KeepsAssessments, KeepsWork, KeepsTimes
<1>7. PipelineInv'
  BY <1>5, <1>6, Kept DEF PipelineInv
<1>8. \A x \in Consultations :
         wf'[x].email = "SENT" => wf[x].email = "SENT" \/ (x = c /\ state = "SENT")
  BY <1>2, <1>4
<1> QED
  BY <1>7, <1>8

(* A step of one invocation, from what the invocation knows afterwards and what is
   then recorded as sent. *)
LEMMA SenderMoves ==
    ASSUME IInv, NEW s \in Senders, NEW k \in SenderRecord, PipelineInv',
           sender' = [sender EXCEPT ![s] = k], Knowing(k, delivered'),
           delivered \subseteq delivered', delivered' \subseteq Consultations \X Times,
           faults' \in 0..MaxFaults, note' \in [Consultations -> [Times -> NoteStatus]],
           \A c \in Consultations, t \in Times :
               note'[c][t] = "SENT" => note[c][t] = "SENT" \/ <<c, t>> \in delivered',
           \A c \in Consultations :
               wf'[c].email = "SENT" => \/ wf[c].email = "SENT"
                                        \/ \E t \in Times : <<c, t>> \in delivered'
    PROVE  IInv'
<1>1. MailTypeOK'
  BY DEF IInv, MailTypeOK
<1>2. SendersKnow'
  <2> SUFFICES ASSUME NEW x \in Senders PROVE Knowing(sender'[x], delivered')
    BY DEF SendersKnow, Knowing
  <2>1. sender'[x] = IF x = s THEN k ELSE sender[x]
    BY DEF IInv, MailTypeOK
  <2>2. Knowing(sender[x], delivered)
    BY DEF IInv, SendersKnow
  <2> QED
    BY <2>1, <2>2 DEF Knowing
<1>3. SentIsDelivered'
  BY DEF IInv, SentIsDelivered
<1> QED
  BY <1>1, <1>2, <1>3 DEF IInv

LEMMA ReadWorkflowStep ==
    ASSUME IInv, NEW s \in Senders, NEW c \in Consultations, ReadWorkflow(s, c)
    PROVE  IInv'
<1> DEFINE k == [Idle EXCEPT !.pc = "readInvoice", !.c = c, !.t = wf[c].start]
<1>1. wf[c].start \in Times
  BY DEF ReadWorkflow, IInv, PipelineInv, BookedHasTime
<1>2. k \in SenderRecord /\ Knowing(k, delivered)
  BY <1>1 DEF Idle, SenderRecord, SenderPC, Knowing
<1>3. sender' = [sender EXCEPT ![s] = k] /\ UNCHANGED <<wfvars, note, delivered, faults>>
  BY DEF ReadWorkflow
<1>4. PipelineInv'
  BY <1>3 DEF IInv, PipelineInv, wfvars, PipelineTypeOK, BookedHasTime,
              AssignmentFollowsDecision, OneStandingAssessment, WorkIsPaidFor, ChargedRows,
              RowsAreCharged
<1> HIDE DEF k
<1> QED
  BY <1>2, <1>3, <1>4, SenderMoves DEF IInv, MailTypeOK, wfvars

LEMMA DiesStep ==
    ASSUME IInv, NEW s \in Senders, Dies(s)
    PROVE  IInv'
<1>1. Idle \in SenderRecord /\ Knowing(Idle, delivered)
  BY DEF Idle, SenderRecord, SenderPC, Knowing
<1>2. sender' = [sender EXCEPT ![s] = Idle] /\ UNCHANGED <<wfvars, note, delivered>>
  BY DEF Dies, Ends
<1>3. faults' \in 0..MaxFaults
  BY EmailAssumption DEF Dies, Fault, IInv, MailTypeOK
<1>4. PipelineInv'
  BY <1>2 DEF IInv, PipelineInv, wfvars, PipelineTypeOK, BookedHasTime,
              AssignmentFollowsDecision, OneStandingAssessment, WorkIsPaidFor, ChargedRows,
              RowsAreCharged
<1> QED
  BY <1>1, <1>2, <1>3, <1>4, SenderMoves DEF IInv, MailTypeOK, wfvars

(* The requests between the first read and the end of an invocation. *)
LEMMA SenderSteps ==
    ASSUME IInv, NEW s \in Senders, SenderStep(s)
    PROVE  IInv'
<1> DEFINE c == sender[s].c
           t == sender[s].t
<1>1. /\ sender[s] \in SenderRecord /\ Knowing(sender[s], delivered)
      /\ c \in Consultations /\ t \in Times
  <2>1. sender[s] \in SenderRecord /\ Knowing(sender[s], delivered)
    BY DEF IInv, MailTypeOK, SendersKnow
  <2>2. sender[s].pc # "idle"
    BY DEF SenderStep, ReadInvoice, ReadNote, MarkSending, SaveNote, Send, NoteFailed,
           MarkFailed, NoteSent, MarkSent
  <2> QED
    BY <2>1, <2>2 DEF Knowing
<1>2. /\ delivered \subseteq delivered' /\ delivered' \subseteq Consultations \X Times
      /\ faults' \in 0..MaxFaults
  <2>1. delivered \subseteq Consultations \X Times /\ faults \in 0..MaxFaults
    BY DEF IInv, MailTypeOK
  <2>2. Fault => faults' \in 0..MaxFaults
    BY <2>1, EmailAssumption DEF Fault
  <2>3. delivered' \in {delivered, delivered \cup {<<c, t>>}}
    BY DEF SenderStep, ReadInvoice, ReadNote, MarkSending, SaveNote, Send, NoteFailed,
           MarkFailed, NoteSent, MarkSent
  <2>4. faults' = faults \/ Fault
    BY DEF SenderStep, ReadInvoice, ReadNote, MarkSending, SaveNote, Send, NoteFailed,
           MarkFailed, NoteSent, MarkSent, PatchWorkflow, PatchNote, PatchNoteByKey
  <2> QED
    BY <1>1, <2>1, <2>2, <2>3, <2>4
<1>3. PICK k \in SenderRecord : sender' = [sender EXCEPT ![s] = k] /\ Knowing(k, delivered')
  <2>1. ASSUME NEW pc \in SenderPC,
               pc \in {"noteSent", "markSent"} => <<c, t>> \in delivered',
               Goes(s, pc)
        PROVE  \E k \in SenderRecord :
                  sender' = [sender EXCEPT ![s] = k] /\ Knowing(k, delivered')
    <3> DEFINE k == [sender[s] EXCEPT !.pc = pc]
    <3>1. k \in SenderRecord /\ k.pc = pc /\ k.c = c /\ k.t = t
      BY <1>1 DEF SenderRecord
    <3>2. Knowing(k, delivered')
      BY <1>1, <2>1, <3>1 DEF Knowing
    <3>3. sender' = [sender EXCEPT ![s] = k]
      BY <2>1 DEF Goes
    <3> HIDE DEF k
    <3> QED
      BY <3>1, <3>2, <3>3
  <2>2. ASSUME Ends(s)
        PROVE  \E k \in SenderRecord :
                  sender' = [sender EXCEPT ![s] = k] /\ Knowing(k, delivered')
    <3>1. Idle \in SenderRecord /\ Knowing(Idle, delivered')
      BY DEF Idle, SenderRecord, SenderPC, Knowing
    <3> QED
      BY <2>2, <3>1 DEF Ends
  <2>3. CASE ReadInvoice(s)
    BY <2>1, <2>2, <2>3 DEF ReadInvoice, SenderPC
  <2>4. CASE ReadNote(s) /\ ~Ends(s)
    <3>1. PICK b \in BOOLEAN :
             sender' = [sender EXCEPT ![s].pc = "markSending", ![s].known = b]
      BY <2>4 DEF ReadNote
    <3> DEFINE k == [sender[s] EXCEPT !.pc = "markSending", !.known = b]
    <3>2. k \in SenderRecord /\ k.pc = "markSending" /\ k.c = c /\ k.t = t
      BY <1>1 DEF SenderRecord, SenderPC
    <3>3. Knowing(k, delivered')
      BY <1>1, <3>2 DEF Knowing
    <3>4. sender' = [sender EXCEPT ![s] = k]
      BY <1>1, <3>1 DEF IInv, MailTypeOK
    <3> HIDE DEF k
    <3> QED
      BY <3>2, <3>3, <3>4
  <2>5. CASE MarkSending(s) \/ SaveNote(s)
    BY <2>1, <2>5 DEF MarkSending, SaveNote, SenderPC
  <2>6. CASE Send(s)
    BY <2>1, <2>6 DEF Send, SenderPC
  <2>7. CASE NoteFailed(s) \/ MarkFailed(s) \/ MarkSent(s)
    BY <2>1, <2>2, <2>7 DEF NoteFailed, MarkFailed, MarkSent, SenderPC
  <2>8. CASE NoteSent(s)
    BY <1>1, <1>2, <2>1, <2>8 DEF NoteSent, SenderPC, Knowing
  <2> QED
    BY <2>2, <2>3, <2>4, <2>5, <2>6, <2>7, <2>8 DEF SenderStep
<1>4. /\ note' \in [Consultations -> [Times -> NoteStatus]]
      /\ \A x \in Consultations, y \in Times :
            note'[x][y] = "SENT" => note[x][y] = "SENT" \/ <<x, y>> \in delivered'
  <2>1. note \in [Consultations -> [Times -> NoteStatus]]
    BY DEF IInv, MailTypeOK
  <2>2. PICK status \in NoteStatus :
           /\ note' = note \/ note' = [note EXCEPT ![c][t] = status]
           /\ status = "SENT" => <<c, t>> \in delivered
    <3>1. CASE note' = note
      BY <3>1 DEF NoteStatus
    <3>2. CASE SaveNote(s) \/ NoteFailed(s)
      BY <3>2 DEF SaveNote, NoteFailed, PatchNoteByKey, PatchNote, NoteStatus
    <3>3. CASE NoteSent(s)
      BY <1>1, <3>3 DEF NoteSent, PatchNoteByKey, PatchNote, NoteStatus, Knowing
    <3> QED
      BY <3>1, <3>2, <3>3 DEF SenderStep, ReadInvoice, ReadNote, MarkSending, Send,
                              MarkFailed, MarkSent
  <2>3. \A x \in Consultations, y \in Times :
           note'[x][y] \in {note[x][y], IF x = c /\ y = t THEN status ELSE note[x][y]}
    BY <1>1, <2>1, <2>2
  <2>4. note' \in [Consultations -> [Times -> NoteStatus]]
    BY <1>1, <2>1, <2>2
  <2> QED
    BY <1>2, <2>2, <2>3, <2>4
<1>5. /\ PipelineInv'
      /\ \A x \in Consultations :
            wf'[x].email = "SENT" => \/ wf[x].email = "SENT"
                                     \/ \E y \in Times : <<x, y>> \in delivered'
  <2>1. PICK state \in EmailState :
           /\ PatchWorkflow(s, state) \/ UNCHANGED wfvars
           /\ state = "SENT" => <<c, t>> \in delivered
    <3>1. CASE MarkSent(s)
      BY <1>1, <3>1 DEF MarkSent, EmailState, Knowing
    <3>2. CASE ~MarkSent(s)
      BY <3>2 DEF SenderStep, ReadInvoice, ReadNote, MarkSending, SaveNote, Send, NoteFailed,
                  MarkFailed, NoteSent, EmailState
    <3> QED
      BY <3>1, <3>2
  <2> QED
    BY <1>1, <1>2, <2>1, EmailWrites DEF IInv
<1> HIDE DEF c, t
<1> QED
  BY <1>2, <1>3, <1>4, <1>5, SenderMoves

--------------------------------------------------------------------------------
LEMMA InvInit == Init => IInv
<1> SUFFICES ASSUME Init PROVE IInv
  OBVIOUS
<1> USE ConsultationAssumption, EmailAssumption DEF Init, PipelineInit
<1>1. PipelineTypeOK
  BY DEF PipelineTypeOK, IntakeStatus, FormStatus, InvoiceStatus, RowStatus, BookingState,
         Qualification, NoWorkflow, Workflow, OwnerDecision, PaymentState, EmailState, NoLink
<1>2. BookedHasTime /\ AssignmentFollowsDecision /\ OneStandingAssessment
  BY DEF BookedHasTime, AssignmentFollowsDecision, OneStandingAssessment, NoLink, NoWorkflow
<1>3. WorkIsPaidFor /\ RowsAreCharged
  BY DEF WorkIsPaidFor, NoWorkflow, RowsAreCharged
<1>4. MailTypeOK
  BY DEF MailTypeOK, SenderRecord, SenderPC, NoteStatus, Idle
<1>5. SendersKnow /\ SentIsDelivered
  BY DEF SendersKnow, Knowing, Idle, SentIsDelivered, NoWorkflow
<1> QED
  BY <1>1, <1>2, <1>3, <1>4, <1>5 DEF IInv, PipelineInv

LEMMA InvStep == IInv /\ [Next]_vars => IInv'
<1> SUFFICES ASSUME IInv, [Next]_vars PROVE IInv'
  OBVIOUS
<1>1. CASE PipelineNext /\ UNCHANGED mailvars
  <2>1. PipelineInv' /\ \A x \in Consultations : wf'[x].email = "SENT" => wf[x].email = "SENT"
    BY <1>1, PipelineStep DEF IInv
  <2>2. UNCHANGED <<sender, note, delivered, faults>>
    BY <1>1 DEF mailvars
  <2> QED
    BY <2>1, <2>2 DEF IInv, MailTypeOK, SendersKnow, Knowing, SentIsDelivered
<1>2. CASE \E s \in Senders : \/ \E c \in Consultations : ReadWorkflow(s, c)
                              \/ SenderStep(s)
                              \/ Dies(s)
  BY <1>2, ReadWorkflowStep, SenderSteps, DiesStep
<1>3. CASE UNCHANGED vars
  <2>1. /\ UNCHANGED <<intake, form, wf, assessment, booking, invoice, payRow, charge, linking>>
        /\ UNCHANGED <<sender, note, delivered, faults>>
    BY <1>3 DEF vars, wfvars, mailvars
  <2>2. KeepsDecisions /\ KeepsAssessments /\ KeepsWork /\ KeepsTimes
    BY <2>1 DEF KeepsDecisions, KeepsAssessments, KeepsWork, KeepsTimes
  <2>3. PipelineTypeOK'
    BY <2>1 DEF IInv, PipelineInv, PipelineTypeOK
  <2>4. PipelineInv'
    BY <2>2, <2>3, Kept DEF IInv, PipelineInv
  <2> QED
    BY <2>1, <2>4 DEF IInv, MailTypeOK, SendersKnow, Knowing, SentIsDelivered
<1> QED
  BY <1>1, <1>2, <1>3 DEF Next

(* The inductive invariant holds in every behaviour, for every value of the
   constants. *)
THEOREM Invariant == Spec => []IInv
BY InvInit, InvStep, PTL DEF Spec

(* Every row of the pipeline and every local of a confirmation keeps its type: in
   particular the triggers copy no status the workflow's column does not allow. *)
THEOREM TypeCorrect == Spec => []TypeOK
<1>1. IInv => TypeOK
  BY DEF IInv, PipelineInv, MailTypeOK, SenderRecord, TypeOK
<1> QED
  BY <1>1, Invariant, PTL

(* The client's answers are open exactly while the owner has not decided on them. *)
THEOREM AnswersFollowDecision == Spec => []AssignmentFollowsDecision
<1>1. IInv => AssignmentFollowsDecision
  BY DEF IInv, PipelineInv
<1> QED
  BY <1>1, Invariant, PTL

(* However often an intake is assessed, one assessment stands and the workflow
   names it. *)
THEOREM AssessmentStands == Spec => []OneStandingAssessment
<1>1. IInv => OneStandingAssessment
  BY DEF IInv, PipelineInv
<1> QED
  BY <1>1, Invariant, PTL

(* No consultation is cleared, held or qualified without a successful payment of its
   own invoice, overlapping requests included. *)
THEOREM NoWorkUnpaid == Spec => []WorkIsPaidFor
<1>1. IInv => WorkIsPaidFor
  BY DEF IInv, PipelineInv
<1> QED
  BY <1>1, Invariant, PTL

(* Neither the notification nor the workflow claims a confirmation the provider has
   not sent, however many invocations run, fail or die. *)
THEOREM SentWasDelivered == Spec => []SentIsDelivered
<1>1. IInv => SentIsDelivered
  BY DEF IInv
<1> QED
  BY <1>1, Invariant, PTL

--------------------------------------------------------------------------------
(* Money and booking, whether or not requests overlap.  Neither property is
   inductive.  Money reaches a consultation only through an invoice with a link, so
   that a link issued for an invoice that has none finds nothing cleared; a slow
   request may reopen a paid invoice, and then leaves OPEN and DUE together.  And the
   booking a workflow is linked to does not change under a link that writes it again,
   for the event waits for the workflow's lock. *)
MoneyInv ==
    /\ ClearedIsPaid
    /\ \A c \in Consultations :
          /\ wf[c].cleared => invoice[c].url
          /\ ~wf[c].billed => invoice[c].status = "NONE" /\ ~invoice[c].url
          /\ \A p \in Payments : payRow[p].of = c => invoice[c].url

LinkInv ==
    \A c \in Consultations :
        linking[c].booking # NoBooking /\ linking[c].booking = wf[c].booking => ReadHolds(c)

ApartInv == PipelineInv /\ MoneyInv /\ LinkInv

InStep == \A c \in Consultations : StaysInStep(c) => Shows(c)'

CopyStep == LinkInv' /\ InStep

KeepsMoney ==
    /\ UNCHANGED <<invoice, payRow>>
    /\ \A c \in Consultations : /\ wf'[c].cleared => wf[c].cleared
                                /\ wf'[c].pay = wf[c].pay
                                /\ wf'[c].billed = wf[c].billed

KeepsCopies ==
    /\ UNCHANGED <<booking, linking>>
    /\ \A c \in Consultations : /\ wf'[c].booking = wf[c].booking
                                /\ wf'[c].start = wf[c].start
                                /\ wf'[c].state \in {wf[c].state, "COMPLETED"}

LEMMA KeptApart ==
    ASSUME ApartInv
    PROVE  /\ KeepsMoney => MoneyInv'
           /\ KeepsCopies => CopyStep
<1>1. KeepsMoney => MoneyInv'
  BY DEF ApartInv, MoneyInv, ClearedIsPaid, KeepsMoney
<1>2. KeepsCopies => LinkInv'
  BY DEF ApartInv, LinkInv, ReadHolds, KeepsCopies
<1>3. KeepsCopies => InStep
  BY DEF InStep, StaysInStep, Shows, KeepsCopies
<1> QED
  BY <1>1, <1>2, <1>3 DEF CopyStep

(* What the triggers leave of money and booking. *)
LEMMA SyncApart ==
    ASSUME NEW w \in Workflow
    PROVE  /\ \A state \in BookingState, start \in Times :
                 LET r == SyncFromBooking(w, state, start) IN
                 /\ r.pay = w.pay /\ r.billed = w.billed /\ r.booking = w.booking
                 /\ r.state = state /\ r.start = start
                 /\ r.cleared => w.cleared
           /\ \A status \in InvoiceStatus, url \in BOOLEAN :
                 LET r == SyncFromInvoice(w, status, url) IN
                 /\ r.billed = w.billed /\ r.booking = w.booking
                 /\ r.state = w.state /\ r.start = w.start
                 /\ r.cleared => status = "PAID" \/ w.cleared
                 /\ status = "PAID" => r.pay = "PAID"
                 /\ status = "OPEN" /\ url => r.pay = "DUE"
                 /\ status \in {"PAST_DUE", "VOID"} => ~r.cleared
           /\ \A status \in RowStatus :
                 LET r == SyncFromPayment(w, status) IN
                 /\ r.billed = w.billed /\ r.booking = w.booking
                 /\ r.state = w.state /\ r.start = w.start
                 /\ r.cleared => \/ r.pay = "PAID"
                                 \/ w.cleared /\ r.pay = w.pay
<1>1. ASSUME NEW state \in BookingState, NEW start \in Times
      PROVE  LET r == SyncFromBooking(w, state, start) IN
                 /\ r.pay = w.pay /\ r.billed = w.billed /\ r.booking = w.booking
                 /\ r.state = state /\ r.start = start
                 /\ r.cleared => w.cleared
  BY DEF SyncFromBooking, Workflow
<1>2. ASSUME NEW status \in InvoiceStatus, NEW url \in BOOLEAN
      PROVE  LET r == SyncFromInvoice(w, status, url) IN
                 /\ r.billed = w.billed /\ r.booking = w.booking
                 /\ r.state = w.state /\ r.start = w.start
                 /\ r.cleared => status = "PAID" \/ w.cleared
                 /\ status = "PAID" => r.pay = "PAID"
                 /\ status = "OPEN" /\ url => r.pay = "DUE"
                 /\ status \in {"PAST_DUE", "VOID"} => ~r.cleared
  BY DEF SyncFromInvoice, Workflow
<1>3. ASSUME NEW status \in RowStatus
      PROVE  LET r == SyncFromPayment(w, status) IN
                 /\ r.billed = w.billed /\ r.booking = w.booking
                 /\ r.state = w.state /\ r.start = w.start
                 /\ r.cleared => \/ r.pay = "PAID"
                                 \/ w.cleared /\ r.pay = w.pay
  BY DEF SyncFromPayment, Workflow, RowStatus
<1> QED
  BY <1>1, <1>2, <1>3

(* Writes of a workflow row that touch neither its money nor its booking. *)
LEMMA RowApart ==
    ASSUME ApartInv, NEW c \in Consultations, NEW w,
           wf' = [wf EXCEPT ![c] = w],
           UNCHANGED <<booking, invoice, payRow, charge, linking>>,
           w.cleared = wf[c].cleared, w.pay = wf[c].pay, w.billed = wf[c].billed,
           w.booking = wf[c].booking, w.start = wf[c].start,
           w.state \in {wf[c].state, "COMPLETED"}
    PROVE  MoneyInv' /\ CopyStep
<1>1. \A x \in Consultations : wf'[x] = IF x = c THEN w ELSE wf[x]
  BY DEF ApartInv, PipelineInv, PipelineTypeOK
<1>2. KeepsMoney /\ KeepsCopies
  BY <1>1 DEF KeepsMoney, KeepsCopies
<1> QED
  BY <1>2, KeptApart

LEMMA DecisionApart ==
    ASSUME ApartInv, NEW c \in Consultations,
           \/ SubmitAssignment(c)
           \/ \E d \in OwnerDecision \ {"NONE", "PENDING"} : DecideConsultation(c, d)
           \/ MarkCompleted(c)
           \/ \E a \in Assessments, q \in Qualification \ {"PENDING"} :
                 RecordConsultation(c, a, q)
    PROVE  MoneyInv' /\ CopyStep
<1>1. wf[c] \in Workflow
  BY Rows DEF ApartInv, PipelineInv
<1>2. CASE SubmitAssignment(c) \/ \E d \in OwnerDecision \ {"NONE", "PENDING"} :
                                     DecideConsultation(c, d)
  <2>1. PICK d : /\ wf' = [wf EXCEPT ![c] = [wf[c] EXCEPT !.decision = d]]
                 /\ UNCHANGED <<booking, invoice, payRow, charge, linking>>
    BY <1>2 DEF SubmitAssignment, DecideConsultation
  <2> DEFINE w == [wf[c] EXCEPT !.decision = d]
  <2>2. /\ w.cleared = wf[c].cleared /\ w.pay = wf[c].pay /\ w.billed = wf[c].billed
        /\ w.booking = wf[c].booking /\ w.start = wf[c].start /\ w.state = wf[c].state
    BY <1>1 DEF Workflow
  <2>3. wf' = [wf EXCEPT ![c] = w]
    BY <2>1
  <2> HIDE DEF w
  <2> QED
    BY <2>1, <2>2, <2>3, RowApart
<1>3. CASE MarkCompleted(c)
  <2> DEFINE w == [wf[c] EXCEPT !.completed = TRUE, !.state = "COMPLETED"]
  <2>1. /\ w.cleared = wf[c].cleared /\ w.pay = wf[c].pay /\ w.billed = wf[c].billed
        /\ w.booking = wf[c].booking /\ w.start = wf[c].start /\ w.state = "COMPLETED"
    BY <1>1 DEF Workflow
  <2>2. wf' = [wf EXCEPT ![c] = w] /\ UNCHANGED <<booking, invoice, payRow, charge, linking>>
    BY <1>3 DEF MarkCompleted
  <2> HIDE DEF w
  <2> QED
    BY <2>1, <2>2, RowApart
<1>4. CASE \E a \in Assessments, q \in Qualification \ {"PENDING"} :
              RecordConsultation(c, a, q)
  <2>1. PICK a, q : /\ wf' = [wf EXCEPT ![c] = [wf[c] EXCEPT !.qual = q, !.by = a]]
                    /\ UNCHANGED <<booking, invoice, payRow, charge, linking>>
    BY <1>4 DEF RecordConsultation
  <2> DEFINE w == [wf[c] EXCEPT !.qual = q, !.by = a]
  <2>2. /\ w.cleared = wf[c].cleared /\ w.pay = wf[c].pay /\ w.billed = wf[c].billed
        /\ w.booking = wf[c].booking /\ w.start = wf[c].start /\ w.state = wf[c].state
    BY <1>1 DEF Workflow
  <2>3. wf' = [wf EXCEPT ![c] = w]
    BY <2>1
  <2> HIDE DEF w
  <2> QED
    BY <2>1, <2>2, <2>3, RowApart
<1> QED
  BY <1>2, <1>3, <1>4

(* The linking of a booking: what is read is current, and what is written still is. *)
LEMMA LinkApart ==
    ASSUME ApartInv, NEW c \in Consultations,
           (\E b \in Bookings : LinkReads(c, b)) \/ LinkWrites(c)
    PROVE  MoneyInv' /\ CopyStep
<1>1. wf[c] \in Workflow /\ wf \in [Consultations -> Workflow]
  BY DEF ApartInv, PipelineInv, PipelineTypeOK
<1>2. linking \in [Consultations -> [booking : Bookings \cup {NoBooking},
                                     state : BookingState, start : Times \cup {NoTime}]]
  BY DEF ApartInv, PipelineInv, PipelineTypeOK
<1>3. CASE \E b \in Bookings : LinkReads(c, b)
  <2>1. PICK b \in Bookings :
           /\ linking' = [linking EXCEPT ![c] = [booking |-> b, state |-> booking[b].state,
                                                 start |-> booking[b].start]]
           /\ UNCHANGED <<wf, booking, invoice, payRow, charge>>
    BY <1>3 DEF LinkReads
  <2>2. \A x \in Consultations :
           linking'[x] = IF x = c THEN [booking |-> b, state |-> booking[b].state,
                                        start |-> booking[b].start] ELSE linking[x]
    BY <1>2, <2>1
  <2>3. CopyStep
    BY <2>1, <2>2 DEF ApartInv, LinkInv, ReadHolds, CopyStep, InStep, StaysInStep, Shows
  <2>4. KeepsMoney
    BY <2>1 DEF KeepsMoney
  <2> QED
    BY <2>3, <2>4, KeptApart
<1>4. CASE LinkWrites(c)
  <2> DEFINE w == [wf[c] EXCEPT !.booking = linking[c].booking, !.state = linking[c].state,
                                !.start = linking[c].start, !.email = "NOT_READY"]
  <2>1. /\ w.cleared = wf[c].cleared /\ w.pay = wf[c].pay /\ w.billed = wf[c].billed
        /\ w.booking = linking[c].booking /\ w.state = linking[c].state
        /\ w.start = linking[c].start
    BY <1>1 DEF Workflow
  <2>2. /\ wf' = wf \/ wf' = [wf EXCEPT ![c] = w]
        /\ linking' = [linking EXCEPT ![c] = NoLink]
        /\ UNCHANGED <<booking, invoice, payRow, charge>>
    BY <1>4 DEF LinkWrites
  <2> HIDE DEF w
  <2>3. \A x \in Consultations : wf'[x] \in {wf[x], IF x = c THEN w ELSE wf[x]}
    BY <1>1, <2>2
  <2>4. \A x \in Consultations : linking'[x] = IF x = c THEN NoLink ELSE linking[x]
    BY <1>2, <2>2
  <2>5. NoLink.booking = NoBooking
    BY DEF NoLink
  <2>6. InStep
    <3> SUFFICES ASSUME NEW x \in Consultations, StaysInStep(x)
                 PROVE  Shows(x)'
      BY DEF InStep
    <3>1. CASE wf'[x] = wf[x]
      BY <2>2, <3>1 DEF StaysInStep, Shows
    <3>2. CASE wf'[x] = w /\ x = c
      <4>1. ReadHolds(c)
        BY <2>1, <3>2 DEF StaysInStep, ApartInv, LinkInv
      <4> QED
        BY <2>1, <2>2, <3>2, <4>1 DEF ReadHolds, Shows
    <3> QED
      BY <2>3, <3>1, <3>2
  <2>7. CopyStep
    <3>1. LinkInv'
      BY <2>1, <2>2, <2>3, <2>4, <2>5 DEF ApartInv, LinkInv, ReadHolds
    <3> QED
      BY <2>6, <3>1 DEF CopyStep
  <2>8. KeepsMoney
    BY <2>1, <2>2, <2>3 DEF KeepsMoney
  <2> QED
    BY <2>7, <2>8, KeptApart
<1> QED
  BY <1>3, <1>4

(* The invoice of a consultation is new, and has no link yet. *)
LEMMA BillApart ==
    ASSUME ApartInv, NEW c \in Consultations, PrepareInvoice(c)
    PROVE  MoneyInv' /\ CopyStep
<1> DEFINE w == [wf[c] EXCEPT !.billed = TRUE, !.pay = "DUE"]
<1>1. wf[c] \in Workflow
  BY Rows DEF ApartInv, PipelineInv
<1>2. /\ w.cleared = wf[c].cleared /\ w.billed
      /\ w.booking = wf[c].booking /\ w.start = wf[c].start /\ w.state = wf[c].state
  BY <1>1 DEF Workflow
<1>3. /\ wf' = [wf EXCEPT ![c] = w] /\ ~wf[c].billed
      /\ invoice' = [invoice EXCEPT ![c] = [status |-> "DRAFT", url |-> FALSE]]
      /\ UNCHANGED <<booking, payRow, charge, linking>>
  BY DEF PrepareInvoice
<1> HIDE DEF w
<1>4. \A x \in Consultations :
         /\ wf'[x] = IF x = c THEN w ELSE wf[x]
         /\ invoice'[x] = IF x = c THEN [status |-> "DRAFT", url |-> FALSE] ELSE invoice[x]
  BY <1>3 DEF ApartInv, PipelineInv, PipelineTypeOK
<1>5. ~invoice[c].url /\ ~wf[c].cleared /\ \A p \in Payments : payRow[p].of # c
  BY <1>3 DEF ApartInv, MoneyInv
<1>6. MoneyInv'
  BY <1>2, <1>3, <1>4, <1>5 DEF ApartInv, MoneyInv, ClearedIsPaid
<1>7. KeepsCopies
  BY <1>2, <1>3, <1>4 DEF KeepsCopies
<1> QED
  BY <1>6, <1>7, KeptApart

(* A booking event waits for the lock of the workflow linked to it, and the trigger
   copies it. *)
LEMMA BookingApart ==
    ASSUME ApartInv, NEW b \in Bookings, NEW s \in BookingState \ {"NOT_BOOKED"},
           NEW t \in Times, BookingEvent(b, s, t)
    PROVE  MoneyInv' /\ CopyStep
<1>1. /\ booking' = [booking EXCEPT ![b] = [state |-> s, start |-> t]]
      /\ wf' = [c \in Consultations |->
                  IF wf[c].booking = b THEN SyncFromBooking(wf[c], s, t) ELSE wf[c]]
      /\ UNCHANGED <<invoice, payRow, charge, linking>>
      /\ \A c \in Consultations : wf[c].booking = b => linking[c].booking = NoBooking
  BY DEF BookingEvent, Unlocked, NoLink
<1>2. \A c \in Consultations :
         /\ wf'[c].pay = wf[c].pay /\ wf'[c].billed = wf[c].billed
         /\ wf'[c].booking = wf[c].booking
         /\ wf'[c].cleared => wf[c].cleared
         /\ wf[c].booking = b => wf'[c].state = s /\ wf'[c].start = t
         /\ wf[c].booking # b => wf'[c].state = wf[c].state /\ wf'[c].start = wf[c].start
  <2> SUFFICES ASSUME NEW c \in Consultations
               PROVE  /\ wf'[c].pay = wf[c].pay /\ wf'[c].billed = wf[c].billed
                      /\ wf'[c].booking = wf[c].booking
                      /\ wf'[c].cleared => wf[c].cleared
                      /\ wf[c].booking = b => wf'[c].state = s /\ wf'[c].start = t
                      /\ wf[c].booking # b => /\ wf'[c].state = wf[c].state
                                              /\ wf'[c].start = wf[c].start
    OBVIOUS
  <2>1. wf[c] \in Workflow
    BY Rows DEF ApartInv, PipelineInv
  <2>2. wf'[c] = IF wf[c].booking = b THEN SyncFromBooking(wf[c], s, t) ELSE wf[c]
    BY <1>1
  <2>3. LET r == SyncFromBooking(wf[c], s, t) IN
        /\ r.pay = wf[c].pay /\ r.billed = wf[c].billed /\ r.booking = wf[c].booking
        /\ r.state = s /\ r.start = t
        /\ r.cleared => wf[c].cleared
    BY <2>1, SyncApart
  <2> QED
    BY <2>2, <2>3
<1>3. \A x \in Bookings : booking'[x] = IF x = b THEN [state |-> s, start |-> t] ELSE booking[x]
  BY <1>1 DEF ApartInv, PipelineInv, PipelineTypeOK
<1>4. \A c \in Consultations : /\ wf[c].booking \in Bookings \cup {NoBooking}
                               /\ linking[c].booking \in Bookings \cup {NoBooking}
  BY DEF ApartInv, PipelineInv, PipelineTypeOK, Workflow
<1>5. CopyStep
  <2>1. LinkInv'
    BY <1>1, <1>2, <1>3, <1>4 DEF ApartInv, LinkInv, ReadHolds
  <2>2. InStep
    BY <1>1, <1>2, <1>3, <1>4 DEF InStep, StaysInStep, Shows
  <2> QED
    BY <2>1, <2>2 DEF CopyStep
<1>6. KeepsMoney
  BY <1>1, <1>2 DEF KeepsMoney
<1> QED
  BY <1>5, <1>6, KeptApart

(* A link is issued for an invoice that has none, or reopens one; a paid invoice had
   a link. *)
LEMMA InvoiceApart ==
    ASSUME ApartInv, NEW c \in Consultations,
           \/ IssueLink(c) \/ PromoteInvoice(c)
           \/ \E s \in {"PAST_DUE", "VOID"} : OfficeCloses(c, s)
    PROVE  MoneyInv' /\ CopyStep
<1>1. invoice[c].url \in BOOLEAN /\ wf[c] \in Workflow
  BY DEF ApartInv, PipelineInv, PipelineTypeOK
<1>2. PICK status \in {"OPEN", "PAST_DUE", "VOID", "PAID"}, url \in BOOLEAN :
         /\ SetInvoice(c, status, url)
         /\ invoice[c].status # "NONE"
         /\ status = "OPEN" => url /\ (Overlap \/ ~invoice[c].url)
         /\ status # "OPEN" => url = invoice[c].url
         /\ status = "PAID" => PaidRows(c) \in Enough \/ ChargedRows(c) \in Enough
  BY <1>1 DEF IssueLink, PromoteInvoice, OfficeCloses
<1> DEFINE w == SyncFromInvoice(wf[c], status, url)
<1>3. /\ w.billed = wf[c].billed /\ w.booking = wf[c].booking
      /\ w.state = wf[c].state /\ w.start = wf[c].start
      /\ w.cleared => status = "PAID" \/ wf[c].cleared
      /\ status = "PAID" => w.pay = "PAID"
      /\ status = "OPEN" /\ url => w.pay = "DUE"
      /\ status \in {"PAST_DUE", "VOID"} => ~w.cleared
  <2>1. status \in InvoiceStatus
    BY DEF InvoiceStatus
  <2> QED
    BY <1>1, <2>1, SyncApart
<1> HIDE DEF w
<1>4. /\ wf' = [wf EXCEPT ![c] = w]
      /\ invoice' = [invoice EXCEPT ![c] = [status |-> status, url |-> url]]
      /\ UNCHANGED <<booking, payRow, charge, linking>>
  BY <1>2 DEF SetInvoice, w
<1>5. \A x \in Consultations :
         /\ wf'[x] = IF x = c THEN w ELSE wf[x]
         /\ invoice'[x] = IF x = c THEN [status |-> status, url |-> url] ELSE invoice[x]
  BY <1>4 DEF ApartInv, PipelineInv, PipelineTypeOK
<1>6. /\ w.billed
      /\ w.cleared => /\ url
                      /\ w.pay = "PAID" \/ (Overlap /\ w.pay = "DUE" /\ status = "OPEN")
  <2>1. w.billed
    BY <1>2, <1>3 DEF ApartInv, MoneyInv
  <2>2. CASE status = "OPEN"
    BY <1>2, <1>3, <2>1, <2>2 DEF ApartInv, MoneyInv
  <2>3. CASE status = "PAID"
    <3>1. ChargedRows(c) # {}
      BY <1>2, <2>3, CoveredIsPaid DEF ApartInv, PipelineInv
    <3>2. invoice[c].url
      BY <3>1 DEF ChargedRows, ApartInv, MoneyInv
    <3> QED
      BY <1>2, <1>3, <2>1, <2>3, <3>2
  <2>4. CASE status \in {"PAST_DUE", "VOID"}
    BY <1>3, <2>1, <2>4
  <2> QED
    BY <2>2, <2>3, <2>4
<1>7. invoice[c].url => url
  BY <1>2
<1>8. MoneyInv'
  BY <1>4, <1>5, <1>6, <1>7 DEF ApartInv, MoneyInv, ClearedIsPaid
<1>9. KeepsCopies
  BY <1>3, <1>4, <1>5 DEF KeepsCopies
<1> QED
  BY <1>8, <1>9, KeptApart

(* Money is recorded against an invoice that has a link. *)
LEMMA PaymentApart ==
    ASSUME ApartInv, NEW c \in Consultations, NEW p \in Payments, NEW s \in RowStatus,
           RecordPayment(p, c, s)
    PROVE  MoneyInv' /\ CopyStep
<1> DEFINE w == SyncFromPayment(wf[c], s)
<1>1. wf[c] \in Workflow
  BY Rows DEF ApartInv, PipelineInv
<1>2. /\ w.billed = wf[c].billed /\ w.booking = wf[c].booking
      /\ w.state = wf[c].state /\ w.start = wf[c].start
      /\ w.cleared => \/ w.pay = "PAID"
                      \/ wf[c].cleared /\ w.pay = wf[c].pay
  BY <1>1, SyncApart
<1>3. /\ wf' = [wf EXCEPT ![c] = w] /\ invoice[c].url
      /\ payRow' = [payRow EXCEPT ![p] = [status |-> s, of |-> c]]
      /\ UNCHANGED <<booking, invoice, linking>>
  BY DEF RecordPayment
<1> HIDE DEF w
<1>4. /\ \A x \in Consultations : wf'[x] = IF x = c THEN w ELSE wf[x]
      /\ \A x \in Payments : payRow'[x] = IF x = p THEN [status |-> s, of |-> c] ELSE payRow[x]
  BY <1>3 DEF ApartInv, PipelineInv, PipelineTypeOK
<1>5. MoneyInv'
  BY <1>2, <1>3, <1>4 DEF ApartInv, MoneyInv, ClearedIsPaid
<1>6. KeepsCopies
  BY <1>2, <1>3, <1>4 DEF KeepsCopies
<1> QED
  BY <1>5, <1>6, KeptApart

LEMMA PipelineApart ==
    ASSUME ApartInv, PipelineNext
    PROVE  ApartInv' /\ InStep
<1>1. PipelineInv'
  BY PipelineStep DEF ApartInv
<1>2. ASSUME NEW c \in Consultations,
             IntakeCloses(c) \/ \E s \in {"IN_REVIEW", "DECLINED"} : OfficeSetsStatus(c, s)
      PROVE  MoneyInv' /\ CopyStep
  <2>1. UNCHANGED <<wf, booking, invoice, payRow, charge, linking>>
    BY <1>2 DEF IntakeCloses, OfficeSetsStatus
  <2>2. KeepsMoney /\ KeepsCopies
    BY <2>1 DEF KeepsMoney, KeepsCopies
  <2> QED
    BY <2>2, KeptApart
<1>3. CASE \E c \in Consultations : RpcStep(c)
  <2>1. PICK c \in Consultations : RpcStep(c)
    BY <1>3
  <2>2. MoneyInv' /\ CopyStep
    BY <1>2, <2>1, DecisionApart, LinkApart, BillApart DEF RpcStep
  <2> QED
    BY <1>1, <2>2 DEF ApartInv, CopyStep
<1>4. CASE TableStep
  <2>1. MoneyInv' /\ CopyStep
    BY <1>2, <1>4, BookingApart, InvoiceApart, PaymentApart DEF TableStep
  <2> QED
    BY <1>1, <2>1 DEF ApartInv, CopyStep
<1> QED
  BY <1>3, <1>4 DEF PipelineNext

(* The confirmation writes neither. *)
LEMMA SenderApart ==
    ASSUME IInv, ApartInv, PipelineInv', NEW s \in Senders,
           (\E c \in Consultations : ReadWorkflow(s, c)) \/ SenderStep(s) \/ Dies(s)
    PROVE  ApartInv' /\ InStep
<1>1. /\ UNCHANGED <<booking, invoice, payRow, charge, linking>>
      /\ wf' = wf \/ \E state : wf' = [wf EXCEPT ![sender[s].c].email = state]
  BY DEF ReadWorkflow, Dies, SenderStep, ReadInvoice, ReadNote, MarkSending, SaveNote, Send,
         NoteFailed, MarkFailed, NoteSent, MarkSent, PatchWorkflow, wfvars
<1>2. CASE wf' = wf
  BY <1>1, <1>2, KeptApart DEF KeepsMoney, KeepsCopies, ApartInv, CopyStep
<1>3. ASSUME NEW state, wf' = [wf EXCEPT ![sender[s].c].email = state]
      PROVE  ApartInv' /\ InStep
  <2>1. \A c \in Consultations :
           /\ wf'[c].cleared = wf[c].cleared /\ wf'[c].pay = wf[c].pay
           /\ wf'[c].billed = wf[c].billed /\ wf'[c].booking = wf[c].booking
           /\ wf'[c].start = wf[c].start /\ wf'[c].state = wf[c].state
    BY <1>3 DEF ApartInv, PipelineInv, PipelineTypeOK, Workflow
  <2>2. KeepsMoney /\ KeepsCopies
    BY <1>1, <2>1 DEF KeepsMoney, KeepsCopies
  <2> QED
    BY <2>2, KeptApart DEF ApartInv, CopyStep
<1> QED
  BY <1>1, <1>2, <1>3

LEMMA ApartInit == Init => ApartInv
<1> SUFFICES ASSUME Init PROVE ApartInv
  OBVIOUS
<1>1. PipelineInv
  BY InvInit DEF IInv
<1>2. MoneyInv /\ LinkInv
  BY ConsultationAssumption
     DEF Init, PipelineInit, NoWorkflow, NoLink, MoneyInv, LinkInv, ClearedIsPaid
<1> QED
  BY <1>1, <1>2 DEF ApartInv

LEMMA ApartStep ==
    ASSUME IInv, IInv', ApartInv, [Next]_vars
    PROVE  ApartInv' /\ InStep
<1>1. PipelineInv'
  BY DEF IInv
<1>2. CASE PipelineNext
  BY <1>2, PipelineApart
<1>3. CASE \E s \in Senders : \/ \E c \in Consultations : ReadWorkflow(s, c)
                              \/ SenderStep(s)
                              \/ Dies(s)
  BY <1>1, <1>3, SenderApart
<1>4. CASE UNCHANGED vars
  <2>1. UNCHANGED <<wf, booking, invoice, payRow, charge, linking>>
    BY <1>4 DEF vars, wfvars
  <2>2. KeepsMoney /\ KeepsCopies
    BY <2>1 DEF KeepsMoney, KeepsCopies
  <2> QED
    BY <1>1, <2>2, KeptApart DEF ApartInv, CopyStep
<1> QED
  BY <1>2, <1>3, <1>4 DEF Next

THEOREM ApartInvariant == Spec => []ApartInv
<1>1. ApartInv /\ IInv /\ IInv' /\ [Next]_vars => ApartInv'
  BY ApartStep
<1> QED
  BY <1>1, ApartInit, Invariant, PTL DEF Spec

(* A cleared consultation is PAID: clearance and payment state, written by three
   triggers, part only when an overlapping payment-link request reopens the invoice. *)
THEOREM ClearanceIsPaid == Spec => []ClearedIsPaid
<1>1. ApartInv => ClearedIsPaid
  BY DEF ApartInv, MoneyInv
<1> QED
  BY <1>1, ApartInvariant, PTL

(* Every event of a booking puts the workflow linked to it right, and only a new link
   written after an event its read did not see puts it wrong. *)
THEOREM BookingIsFollowed == Spec => WorkflowFollowsBooking
<1>1. ApartInv /\ IInv /\ IInv' /\ [Next]_vars
      => [\A c \in Consultations : StaysInStep(c) => Shows(c)']_wfvars
  BY ApartStep DEF InStep
<1> QED
  BY <1>1, ApartInvariant, Invariant, PTL DEF Spec, WorkflowFollowsBooking
=================================================================================
