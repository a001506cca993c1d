--------------------------- MODULE ConfirmationEmail ---------------------------
(***************************************************************************)
(* The confirmation of a consultation appointment by e-mail, beside the    *)
(* consultation pipeline.  An invocation of consultation-confirmation-email*)
(* (a Sender) sends one request after another; it checks the outcome of    *)
(* its first reads and of the e-mail provider's answer, not of its last    *)
(* read nor of its writes: a write the database refuses is skipped in      *)
(* silence, and a read it refuses is taken for an empty answer.            *)
(***************************************************************************)
EXTENDS ConsultationPipeline, Naturals

CONSTANTS
    Senders,     \* invocations that may run at the same time
    MaxFaults    \* bound on skipped writes, refused e-mails and dead invocations

ASSUME EmailAssumption == MaxFaults \in Nat

VARIABLES
    sender,      \* running invocations and what they have read
    note,        \* consultation_notifications: status, by idempotency key
    delivered,   \* external: the keys the provider has sent an e-mail for
    faults       \* faults so far

mailvars == <<sender, note, delivered, faults>>
vars == <<wfvars, mailvars>>

SenderPC == {"idle", "readInvoice", "readNote", "markSending", "saveNote", "send",
             "noteFailed", "markFailed", "noteSent", "markSent"}
NoteStatus == {"NONE", "SENDING", "SENT", "FAILED"}

Idle == [pc |-> "idle", c |-> NoConsultation, t |-> NoTime, known |-> FALSE]

Init ==
    /\ PipelineInit
    /\ sender = [s \in Senders |-> Idle]
    /\ note = [c \in Consultations |-> [t \in Times |-> "NONE"]]
    /\ delivered = {}
    /\ faults = 0

--------------------------------------------------------------------------------
Goes(s, pc) == sender' = [sender EXCEPT ![s].pc = pc]

Fault == faults < MaxFaults /\ faults' = faults + 1

Ends(s) == sender' = [sender EXCEPT ![s] = Idle]

(* The workflow is read; a confirmation already sent is the answer. *)
ReadWorkflow(s, c) ==
    /\ sender[s].pc = "idle"
    /\ wf[c].decision = "APPROVED_FOR_CONSULTATION"
    /\ wf[c].booking # NoBooking
    /\ wf[c].billed
    /\ wf[c].email # "SENT"
    /\ sender' = [sender EXCEPT ![s] = [Idle EXCEPT !.pc = "readInvoice", !.c = c,
                                                    !.t = wf[c].start]]
    /\ UNCHANGED <<wfvars, note, delivered, faults>>

ReadInvoice(s) ==
    /\ sender[s].pc = "readInvoice"
    /\ IF invoice[sender[s].c].url THEN Goes(s, "readNote") ELSE Ends(s)
    /\ UNCHANGED <<wfvars, note, delivered, faults>>

(* The notification under this consultation's and this time's key.  The answer's
   status is not looked at: a failed read counts as no notification. *)
ReadNote(s) ==
    LET status == note[sender[s].c][sender[s].t] IN
    /\ sender[s].pc = "readNote"
    /\ \/ /\ status = "SENT"
          /\ Ends(s)
          /\ faults' = faults
       \/ /\ status # "SENT"
          /\ sender' = [sender EXCEPT ![s].pc = "markSending", ![s].known = status # "NONE"]
          /\ faults' = faults
       \/ /\ sender' = [sender EXCEPT ![s].pc = "markSending", ![s].known = FALSE]
          /\ Fault
    /\ UNCHANGED <<wfvars, note, delivered>>

(* An update of the workflow's e-mail state, which waits for the row's lock; or
   it is refused, and the invocation goes on all the same. *)
PatchWorkflow(s, state) ==
    \/ /\ Unlocked(sender[s].c)
       /\ wf' = [wf EXCEPT ![sender[s].c].email = state]
       /\ UNCHANGED <<intake, form, assessment, booking, invoice, payRow, charge, linking, faults>>
    \/ /\ Fault
       /\ UNCHANGED wfvars

MarkSending(s) ==
    /\ sender[s].pc = "markSending"
    /\ PatchWorkflow(s, "SENDING")
    /\ Goes(s, "saveNote")
    /\ UNCHANGED <<note, delivered>>

PatchNote(s, status) ==
    \/ /\ note' = [note EXCEPT ![sender[s].c][sender[s].t] = status]
       /\ faults' = faults
    \/ Fault /\ note' = note

(* The row is updated, or inserted: an insert that finds the key taken fails. *)
SaveNote(s) ==
    /\ sender[s].pc = "saveNote"
    /\ IF ~sender[s].known /\ note[sender[s].c][sender[s].t] # "NONE"
         THEN UNCHANGED <<note, faults>>
         ELSE PatchNote(s, "SENDING")
    /\ Goes(s, "send")
    /\ UNCHANGED <<wfvars, delivered>>

(* The provider sends at most one e-mail per idempotency key; it may refuse, or
   send and answer with an error. *)
Send(s) ==
    /\ sender[s].pc = "send"
    /\ \/ /\ delivered' = delivered \cup {<<sender[s].c, sender[s].t>>}
          /\ Goes(s, "noteSent")
          /\ faults' = faults
       \/ /\ Fault
          /\ delivered' \in {delivered, delivered \cup {<<sender[s].c, sender[s].t>>}}
          /\ Goes(s, "noteFailed")
    /\ UNCHANGED <<wfvars, note>>

(* An update by key changes nothing when no row was inserted. *)
PatchNoteByKey(s, status) ==
    IF note[sender[s].c][sender[s].t] = "NONE"
      THEN UNCHANGED <<note, faults>>
      ELSE PatchNote(s, status)

NoteFailed(s) ==
    /\ sender[s].pc = "noteFailed"
    /\ PatchNoteByKey(s, "FAILED")
    /\ Goes(s, "markFailed")
    /\ UNCHANGED <<wfvars, delivered>>

(* Mutant: the workflow is marked SENT whatever the provider said. *)
MarkFailedAsSent(s) ==
    /\ sender[s].pc = "markFailed"
    /\ PatchWorkflow(s, "SENT")
    /\ Ends(s)
    /\ UNCHANGED <<note, delivered>>

MarkFailed(s) ==
    /\ sender[s].pc = "markFailed"
    /\ PatchWorkflow(s, "FAILED")
    /\ Ends(s)
    /\ UNCHANGED <<note, delivered>>

NoteSent(s) ==
    /\ sender[s].pc = "noteSent"
    /\ PatchNoteByKey(s, "SENT")
    /\ Goes(s, "markSent")
    /\ UNCHANGED <<wfvars, delivered>>

MarkSent(s) ==
    /\ sender[s].pc = "markSent"
    /\ PatchWorkflow(s, "SENT")
    /\ Ends(s)
    /\ UNCHANGED <<note, delivered>>

(* A request throws (no connection, a lost answer) and nothing catches it, or the
   invocation is killed. *)
Dies(s) ==
    /\ sender[s].pc # "idle"
    /\ Fault
    /\ Ends(s)
    /\ UNCHANGED <<wfvars, note, delivered>>

SenderStep(s) ==
    \/ ReadInvoice(s) \/ ReadNote(s) \/ MarkSending(s) \/ SaveNote(s) \/ Send(s)
    \/ NoteFailed(s) \/ MarkFailed(s) \/ NoteSent(s) \/ MarkSent(s)

Next ==
    \/ PipelineNext /\ UNCHANGED mailvars
    \/ \E s \in Senders :
          \/ \E c \in Consultations : ReadWorkflow(s, c)
          \/ SenderStep(s)
          \/ Dies(s)

Spec == Init /\ [][Next]_vars

--------------------------------------------------------------------------------
TypeOK ==
    /\ PipelineTypeOK
    /\ sender \in [Senders -> [pc : SenderPC, c : Consultations \cup {NoConsultation},
                               t : Times \cup {NoTime}, known : BOOLEAN]]
    /\ note \in [Consultations -> [Times -> NoteStatus]]
    /\ delivered \subseteq Consultations \X Times
    /\ faults \in 0..MaxFaults

(* Nothing claims that a confirmation was sent unless the provider sent it: not
   the notification of that time, and not the workflow, however invocations
   overlap, fail or are cut short. *)
SentIsDelivered ==
    \A c \in Consultations :
        /\ \A t \in Times : note[c][t] = "SENT" => <<c, t>> \in delivered
        /\ wf[c].email = "SENT" => \E t \in Times : <<c, t>> \in delivered
================================================================================
