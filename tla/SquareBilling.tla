----------------------------- MODULE SquareBilling -----------------------------
(***************************************************************************)
(* Billing through Square.  Two edge functions share the billing tables:   *)
(*                                                                         *)
(*   square-create-payment-link   (an Issuer here)  reads an invoice, asks *)
(*       Square for a payment link and writes the link into the invoice;   *)
(*   square-webhook               (a Worker here)   receives a Square      *)
(*       event, ledgers it, records the payment or refund, and promotes    *)
(*       the invoice to PAID.                                              *)
(*                                                                         *)
(* Neither function runs in a transaction: every request it sends to the   *)
(* database is an atomic step and the invocations interleave between the   *)
(* steps.  Any request may fail, or succeed with its reply lost, and an    *)
(* invocation may die between two steps; the faults of a behaviour are     *)
(* bounded by MaxFaults.  Square delivers an event until it is answered    *)
(* with 200, possibly to several invocations at once.                      *)
(***************************************************************************)
EXTENDS Naturals

CONSTANTS
    Invoices,       \* rows of the invoices table
    Orders,         \* the orders Square may create for payment links
    Payments,       \* Square payments
    Refunds,        \* Square refunds
    Workers,        \* webhook invocations that may run at the same time
    Issuers,        \* payment-link invocations that may run at the same time
    PaymentOf,      \* the payment a refund pays back
    Due,            \* amount_cents of an invoice
    Total,          \* what the amounts of a set of payments or refunds add up to
    MaxFaults,      \* bound on failed requests, lost replies and dead workers
    InOrder,        \* TRUE: Square holds back an event until the object's first
                    \* event is acknowledged; FALSE: events come in any order
    NoInvoice, NoOrder, NoEvent,
    ForeignOrder    \* the order of a payment that has nothing to do with Coletti

ASSUME ConstantsAssumption ==
    /\ PaymentOf \in [Refunds -> Payments]
    /\ Due \in [Invoices -> Nat]
    /\ MaxFaults \in Nat
    /\ InOrder \in BOOLEAN
    /\ NoInvoice \notin Invoices
    /\ NoOrder \notin Orders
    /\ ForeignOrder \notin Orders \cup {NoOrder}
    /\ Payments \cap Refunds = {}

(* Amounts are non-negative (the webhook refuses others, lines 165 and 266), so
   more rows never add up to less; no rows add up to nothing. *)
ASSUME TotalAssumption ==
    /\ Total \in [(SUBSET Payments) \cup (SUBSET Refunds) -> Nat]
    /\ Total[{}] = 0
    /\ \A S \in DOMAIN Total, T \in DOMAIN Total :
            S \subseteq T => Total[S] <= Total[T]

PaymentEvents == Payments \X {"APPROVED", "COMPLETED", "FAILED"}
RefundEvents  == Refunds \X {"PENDING", "COMPLETED", "FAILED"}
Events        == PaymentEvents \cup RefundEvents

InvoiceStatus == {"DRAFT", "OPEN", "PAID", "VOID"}
PaymentRowStatus ==
    {"NONE", "PENDING", "SUCCEEDED", "FAILED", "REFUNDED", "PARTIALLY_REFUNDED"}
RefundRowStatus == {"NONE", "PENDING", "SUCCEEDED", "FAILED"}
EventRowStatus == {"NONE", "RECEIVED", "PROCESSED", "IGNORED", "FAILED"}

(* Where an invocation stands, named for the request it is about to send.
   InTry are the requests inside the handler's try block. *)
InTry == {"findInvoice", "upsertPayment", "readPaid", "patchInvoice",
          "findParent", "upsertRefund", "readRefunds", "patchParent",
          "markProcessed", "markIgnored"}
WorkerPC == InTry \cup {"idle", "insert", "eventState", "markFailed", "reply"}
IssuerPC == {"idle", "create", "patch"}

VARIABLES
    invoice,    \* invoices: status and provider_order_id (with the link)
    payRow,     \* payments: status ("NONE": no row) and invoice_id
    refRow,     \* payment_refunds: status ("NONE": no row)
    ledger,     \* payment_provider_events: processing_status
    worker,     \* running webhook invocations
    issuer,     \* running payment-link invocations
    orderRef,   \* Square: the invoice an order was created for (reference_id)
    payment,    \* Square: status of a payment and the order it pays
    refund,     \* Square: status of a refund
    emitted,    \* Square: the events it has published
    acked,      \* Square: the events answered with 200
    faults      \* faults so far

tables == <<invoice, payRow, refRow, ledger>>
square == <<orderRef, payment, refund, emitted>>
vars   == <<tables, worker, issuer, square, acked, faults>>

IdleWorker == [pc |-> "idle", ev |-> NoEvent, inv |-> NoInvoice, set |-> "NONE"]
IdleIssuer == [pc |-> "idle", inv |-> NoInvoice, order |-> NoOrder]

Init ==
    /\ invoice = [i \in Invoices |-> [status |-> "DRAFT", order |-> NoOrder]]
    /\ payRow = [p \in Payments |-> [status |-> "NONE", inv |-> NoInvoice]]
    /\ refRow = [r \in Refunds |-> "NONE"]
    /\ ledger = [e \in Events |-> "NONE"]
    /\ worker = [w \in Workers |-> IdleWorker]
    /\ issuer = [c \in Issuers |-> IdleIssuer]
    /\ orderRef = [o \in Orders |-> NoInvoice]
    /\ payment = [p \in Payments |-> [status |-> "NEW", order |-> NoOrder]]
    /\ refund = [r \in Refunds |-> "NEW"]
    /\ emitted = {}
    /\ acked = {}
    /\ faults = 0

--------------------------------------------------------------------------------
(* square-webhook: helpers *)

(* Mutants: the status copied as it comes; an authorised payment taken as paid. *)
paymentStatusRaw(s) == s
paymentStatusEager(s) == IF s = "FAILED" THEN "FAILED" ELSE "SUCCEEDED"

paymentStatus(s) ==
    CASE s = "COMPLETED" -> "SUCCEEDED" [] s = "FAILED" -> "FAILED" [] OTHER -> "PENDING"

refundStatus(s) ==
    CASE s = "COMPLETED" -> "SUCCEEDED" [] s = "FAILED" -> "FAILED" [] OTHER -> "PENDING"

(* The rows of an invoice that count as paid: only those in SUCCEEDED. *)
PaidRows(i) == {p \in Payments : payRow[p].inv = i /\ payRow[p].status = "SUCCEEDED"}

(* Mutant: the refund total without its status filter. *)
RefundedRowsAny(p) == {r \in Refunds : PaymentOf[r] = p /\ refRow[r] # "NONE"}

RefundedRows(p) == {r \in Refunds : PaymentOf[r] = p /\ refRow[r] = "SUCCEEDED"}

At(w, pc) == worker[w].pc = pc

Ev(w) == worker[w].ev

(* The invocation goes on to its next request. *)
Goes(w, pc) == /\ worker' = [worker EXCEPT ![w].pc = pc]
               /\ faults' = faults

(* A request inside the try block throws: the catch block comes next. *)
Throws(w) == /\ faults < MaxFaults
             /\ faults' = faults + 1
             /\ worker' = [worker EXCEPT ![w].pc = "markFailed"]

(* A write took effect; its reply arrives, or is lost and the request throws. *)
Written(w, pc) == Goes(w, pc) \/ Throws(w)

(* The first request of the part of the handler the event type selects. *)
DispatchTo(e) == IF e \in PaymentEvents THEN "findInvoice" ELSE "findParent"

(* The events Square still delivers. *)
Owed(e) ==
    /\ e \in emitted \ acked
    /\ InOrder => \A f \in emitted \ acked :
                     f[1] = e[1] => f[2] \notin {"APPROVED", "PENDING"} \/ f = e

--------------------------------------------------------------------------------
(* square-webhook: the steps of an invocation *)

Deliver(w, e) ==
    /\ At(w, "idle")
    /\ Owed(e)
    /\ worker' = [worker EXCEPT ![w] = [IdleWorker EXCEPT !.pc = "insert", !.ev = e]]
    /\ UNCHANGED <<tables, issuer, square, acked, faults>>

(* Mutant: a duplicate is answered 500. *)
InsertEventOnce(w) ==
    /\ At(w, "insert")
    /\ \/ /\ ledger[Ev(w)] = "NONE"
          /\ ledger' = [ledger EXCEPT ![Ev(w)] = "RECEIVED"]
          /\ Goes(w, DispatchTo(Ev(w)))
       \/ /\ ledger[Ev(w)] # "NONE"
          /\ worker' = [worker EXCEPT ![w] = IdleWorker]
          /\ UNCHANGED <<ledger, faults>>
    /\ UNCHANGED <<invoice, payRow, refRow, issuer, square, acked>>

(* The insert into the ledger; a unique violation means a duplicate delivery. *)
InsertEvent(w) ==
    /\ At(w, "insert")
    /\ \/ /\ ledger[Ev(w)] = "NONE"
          /\ ledger' = [ledger EXCEPT ![Ev(w)] = "RECEIVED"]
          /\ Goes(w, DispatchTo(Ev(w)))
       \/ /\ ledger[Ev(w)] # "NONE"
          /\ ledger' = ledger
          /\ Goes(w, "eventState")
    /\ UNCHANGED <<invoice, payRow, refRow, issuer, square, acked>>

(* Mutant: every duplicate is a no-op, whatever became of the first delivery. *)
EventStateAnyDuplicate(w) ==
    /\ At(w, "eventState")
    /\ Goes(w, "reply")
    /\ UNCHANGED <<tables, issuer, square, acked>>

EventState(w) ==
    /\ At(w, "eventState")
    /\ Goes(w, IF ledger[Ev(w)] \in {"PROCESSED", "IGNORED"}
                 THEN "reply" ELSE DispatchTo(Ev(w)))
    /\ UNCHANGED <<tables, issuer, square, acked>>

(* processPayment *)

FindInvoiceByOrder(w) ==
    LET found == {i \in Invoices : invoice[i].order = payment[Ev(w)[1]].order}
    IN  /\ At(w, "findInvoice")
        /\ \/ \E i \in found :
                worker' = [worker EXCEPT ![w].pc = "upsertPayment", ![w].inv = i]
           \/ /\ found = {}
              /\ worker' = [worker EXCEPT ![w].pc = "markIgnored"]
        /\ UNCHANGED <<tables, issuer, square, acked, faults>>

UpsertPayment(w) ==
    LET status == paymentStatus(Ev(w)[2])
    IN  /\ At(w, "upsertPayment")
        /\ payRow' = [payRow EXCEPT ![Ev(w)[1]] =
                        [status |-> status, inv |-> worker[w].inv]]
        /\ Written(w, IF status = "SUCCEEDED" THEN "readPaid" ELSE "markProcessed")
        /\ UNCHANGED <<invoice, refRow, ledger, issuer, square, acked>>

(* Mutant: an invoice paid exactly is not promoted. *)
ReadPaidStrict(w) ==
    /\ At(w, "readPaid")
    /\ Goes(w, IF Total[PaidRows(worker[w].inv)] > Due[worker[w].inv]
                 THEN "patchInvoice" ELSE "markProcessed")
    /\ UNCHANGED <<tables, issuer, square, acked>>

ReadPaid(w) ==
    /\ At(w, "readPaid")
    /\ Goes(w, IF Total[PaidRows(worker[w].inv)] >= Due[worker[w].inv]
                 THEN "patchInvoice" ELSE "markProcessed")
    /\ UNCHANGED <<tables, issuer, square, acked>>

PatchInvoice(w) ==
    /\ At(w, "patchInvoice")
    /\ invoice' = [invoice EXCEPT ![worker[w].inv].status = "PAID"]
    /\ Written(w, "markProcessed")
    /\ UNCHANGED <<payRow, refRow, ledger, issuer, square, acked>>

(* processRefund *)

FindParent(w) ==
    /\ At(w, "findParent")
    /\ Goes(w, IF payRow[PaymentOf[Ev(w)[1]]].status # "NONE"
                 THEN "upsertRefund" ELSE "markIgnored")
    /\ UNCHANGED <<tables, issuer, square, acked>>

UpsertRefund(w) ==
    /\ At(w, "upsertRefund")
    /\ refRow' = [refRow EXCEPT ![Ev(w)[1]] = refundStatus(Ev(w)[2])]
    /\ Written(w, "readRefunds")
    /\ UNCHANGED <<invoice, payRow, ledger, issuer, square, acked>>

ReadRefunds(w) ==
    LET p        == PaymentOf[Ev(w)[1]]
        refunded == Total[RefundedRows(p)]
    IN  /\ At(w, "readRefunds")
        /\ \/ /\ refunded > 0
              /\ worker' = [worker EXCEPT
                    ![w].pc  = "patchParent",
                    ![w].set = IF refunded >= Total[{p}] THEN "REFUNDED"
                                                         ELSE "PARTIALLY_REFUNDED"]
           \/ /\ refunded = 0
              /\ worker' = [worker EXCEPT ![w].pc = "markProcessed"]
        /\ UNCHANGED <<tables, issuer, square, acked, faults>>

PatchParent(w) ==
    /\ At(w, "patchParent")
    /\ payRow' = [payRow EXCEPT ![PaymentOf[Ev(w)[1]]].status = worker[w].set]
    /\ Written(w, "markProcessed")
    /\ UNCHANGED <<invoice, refRow, ledger, issuer, square, acked>>

(* markEvent: an unconditional update of the event's row *)

MarkProcessed(w) ==
    /\ At(w, "markProcessed")
    /\ ledger' = [ledger EXCEPT ![Ev(w)] = "PROCESSED"]
    /\ Written(w, "reply")
    /\ UNCHANGED <<invoice, payRow, refRow, issuer, square, acked>>

MarkIgnored(w) ==
    /\ At(w, "markIgnored")
    /\ ledger' = [ledger EXCEPT ![Ev(w)] = "IGNORED"]
    /\ Written(w, "reply")
    /\ UNCHANGED <<invoice, payRow, refRow, issuer, square, acked>>

(* The catch block: mark the event FAILED and answer 500. *)
MarkFailed(w) ==
    /\ At(w, "markFailed")
    /\ ledger' = [ledger EXCEPT ![Ev(w)] = "FAILED"]
    /\ worker' = [worker EXCEPT ![w] = IdleWorker]
    /\ UNCHANGED <<invoice, payRow, refRow, issuer, square, acked, faults>>

(* The 200 reaches Square. *)
Reply(w) ==
    /\ At(w, "reply")
    /\ acked' = acked \cup {Ev(w)}
    /\ worker' = [worker EXCEPT ![w] = IdleWorker]
    /\ UNCHANGED <<tables, issuer, square, faults>>

(* A request inside the try block fails without taking effect. *)
Refused(w) ==
    /\ worker[w].pc \in InTry
    /\ Throws(w)
    /\ UNCHANGED <<tables, issuer, square, acked>>

(* The invocation ends with nothing written and no 200: the process is killed,
   a request outside the try block fails, FAILED cannot be recorded, or the
   final answer is lost. *)
Dies(w) ==
    /\ ~At(w, "idle")
    /\ faults < MaxFaults
    /\ faults' = faults + 1
    /\ worker' = [worker EXCEPT ![w] = IdleWorker]
    /\ UNCHANGED <<tables, issuer, square, acked>>

(* The insert took effect but its reply was lost, outside the try block. *)
InsertUnanswered(w) ==
    /\ At(w, "insert")
    /\ ledger[Ev(w)] = "NONE"
    /\ ledger' = [ledger EXCEPT ![Ev(w)] = "RECEIVED"]
    /\ faults < MaxFaults
    /\ faults' = faults + 1
    /\ worker' = [worker EXCEPT ![w] = IdleWorker]
    /\ UNCHANGED <<invoice, payRow, refRow, issuer, square, acked>>

WebhookStep(w) ==
    \/ InsertEvent(w) \/ EventState(w)
    \/ FindInvoiceByOrder(w) \/ UpsertPayment(w) \/ ReadPaid(w) \/ PatchInvoice(w)
    \/ FindParent(w) \/ UpsertRefund(w) \/ ReadRefunds(w) \/ PatchParent(w)
    \/ MarkProcessed(w) \/ MarkIgnored(w) \/ MarkFailed(w) \/ Reply(w)

WebhookFault(w) == Refused(w) \/ Dies(w) \/ InsertUnanswered(w)

--------------------------------------------------------------------------------
(* square-create-payment-link *)

(* Mutant: a fresh idempotency key for every request. *)
SameKeyNever(o, i) == FALSE

(* The order Square returns for invoice i: the idempotency key is derived from
   the invoice id alone, so a repeated request gets the first order again. *)
SameKey(o, i) == orderRef[o] = i

(* Mutant: an existing link is not reused. *)
ReadInvoiceAgain(c, i) ==
    /\ issuer[c].pc = "idle"
    /\ invoice[i].status \notin {"PAID", "VOID"}
    /\ Due[i] > 0
    /\ issuer' = [issuer EXCEPT ![c] = [pc |-> "create", inv |-> i, order |-> NoOrder]]
    /\ UNCHANGED <<tables, worker, square, acked, faults>>

(* The request reads the invoice; a settled one or one of no amount is refused and
   a linked one answered with its link, which changes nothing. *)
ReadInvoice(c, i) ==
    /\ issuer[c].pc = "idle"
    /\ invoice[i].status \notin {"PAID", "VOID"}
    /\ invoice[i].order = NoOrder
    /\ Due[i] > 0
    /\ issuer' = [issuer EXCEPT ![c] = [pc |-> "create", inv |-> i, order |-> NoOrder]]
    /\ UNCHANGED <<tables, worker, square, acked, faults>>

CreateLink(c) ==
    LET i     == issuer[c].inv
        known == {o \in Orders : SameKey(o, i)}
    IN  /\ issuer[c].pc = "create"
        /\ \E o \in IF known # {} THEN known
                                  ELSE {f \in Orders : orderRef[f] = NoInvoice} :
              /\ orderRef' = [orderRef EXCEPT ![o] = i]
              /\ issuer' = [issuer EXCEPT ![c].pc = "patch", ![c].order = o]
        /\ UNCHANGED <<tables, worker, payment, refund, emitted, acked, faults>>

PatchLink(c) ==
    /\ issuer[c].pc = "patch"
    /\ invoice' = [invoice EXCEPT ![issuer[c].inv] =
                     [status |-> "OPEN", order |-> issuer[c].order]]
    /\ issuer' = [issuer EXCEPT ![c] = IdleIssuer]
    /\ UNCHANGED <<payRow, refRow, ledger, worker, square, acked, faults>>

(* A request fails or the invocation dies; the office may ask again. *)
Abandon(c) ==
    /\ issuer[c].pc # "idle"
    /\ issuer' = [issuer EXCEPT ![c] = IdleIssuer]
    /\ UNCHANGED <<tables, worker, square, acked, faults>>

IssuerStep(c) ==
    \/ \E i \in Invoices : ReadInvoice(c, i)
    \/ CreateLink(c) \/ PatchLink(c) \/ Abandon(c)

--------------------------------------------------------------------------------
(* External: the office, the client and Square *)

(* The office voids an unpaid invoice directly in the table; the code only ever
   reads VOID. *)
OfficeVoids(i) ==
    /\ invoice[i].status \in {"DRAFT", "OPEN"}
    /\ invoice' = [invoice EXCEPT ![i].status = "VOID"]
    /\ UNCHANGED <<payRow, refRow, ledger, worker, issuer, square, acked, faults>>

(* A payment starts on the link an invoice shows, or on an order of another
   line of business of the same Square account. *)
PaymentStarts(p, s) ==
    /\ payment[p].status = "NEW"
    /\ s \in {"APPROVED", "COMPLETED", "FAILED"}
    /\ \E o \in {invoice[i].order : i \in Invoices} \cup {ForeignOrder} :
          /\ o # NoOrder
          /\ payment' = [payment EXCEPT ![p] = [status |-> s, order |-> o]]
    /\ emitted' = emitted \cup {<<p, s>>}
    /\ UNCHANGED <<tables, worker, issuer, orderRef, refund, acked, faults>>

PaymentMoves(p, s) ==
    /\ payment[p].status = "APPROVED"
    /\ s \in {"COMPLETED", "FAILED"}
    /\ payment' = [payment EXCEPT ![p].status = s]
    /\ emitted' = emitted \cup {<<p, s>>}
    /\ UNCHANGED <<tables, worker, issuer, orderRef, refund, acked, faults>>

(* Square refunds no more than was paid. *)
RefundMoves(r, s) ==
    /\ \/ /\ refund[r] = "NEW"
          /\ s \in {"PENDING", "COMPLETED", "FAILED"}
          /\ payment[PaymentOf[r]].status = "COMPLETED"
          /\ Total[{x \in Refunds : PaymentOf[x] = PaymentOf[r]
                                     /\ (x = r \/ refund[x] \in {"PENDING", "COMPLETED"})}]
                <= Total[{PaymentOf[r]}]
       \/ /\ refund[r] = "PENDING"
          /\ s \in {"COMPLETED", "FAILED"}
    /\ refund' = [refund EXCEPT ![r] = s]
    /\ emitted' = emitted \cup {<<r, s>>}
    /\ UNCHANGED <<tables, worker, issuer, orderRef, payment, acked, faults>>

SquareStep ==
    \/ \E i \in Invoices : OfficeVoids(i)
    \/ \E p \in Payments, s \in {"APPROVED", "COMPLETED", "FAILED"} :
          PaymentStarts(p, s) \/ PaymentMoves(p, s)
    \/ \E r \in Refunds, s \in {"PENDING", "COMPLETED", "FAILED"} : RefundMoves(r, s)

--------------------------------------------------------------------------------
Next ==
    \/ \E w \in Workers : \/ \E e \in Events : Deliver(w, e)
                          \/ WebhookStep(w)
                          \/ WebhookFault(w)
    \/ \E c \in Issuers : IssuerStep(c)
    \/ SquareStep

Spec == Init /\ [][Next]_vars

(* An invocation that does not fault runs to its end, and Square delivers an
   event until it is acknowledged.  Nothing obliges the office or the client. *)
Fairness ==
    /\ \A w \in Workers : WF_vars(WebhookStep(w))
    /\ \A e \in Events : WF_vars(\E w \in Workers : Deliver(w, e))

FairSpec == Spec /\ Fairness

--------------------------------------------------------------------------------
(* The office's side of one payment link: what Square has really collected. *)

CollectedFor(i) ==
    {p \in Payments : /\ payment[p].status = "COMPLETED"
                      /\ payment[p].order \in Orders
                      /\ orderRef[payment[p].order] = i}

CompletedRefunds(p) == {r \in Refunds : PaymentOf[r] = p /\ refund[r] = "COMPLETED"}

(* Square has nothing left to deliver and no webhook invocation is running. *)
Settled == emitted \subseteq acked /\ \A w \in Workers : At(w, "idle")

TypeOK ==
    /\ invoice \in [Invoices -> [status : InvoiceStatus, order : Orders \cup {NoOrder}]]
    /\ payRow \in [Payments -> [status : PaymentRowStatus, inv : Invoices \cup {NoInvoice}]]
    /\ refRow \in [Refunds -> RefundRowStatus]
    /\ ledger \in [Events -> EventRowStatus]
    /\ worker \in [Workers -> [pc : WorkerPC, ev : Events \cup {NoEvent},
                               inv : Invoices \cup {NoInvoice},
                               set : PaymentRowStatus]]
    /\ issuer \in [Issuers -> [pc : IssuerPC, inv : Invoices \cup {NoInvoice},
                               order : Orders \cup {NoOrder}]]
    /\ orderRef \in [Orders -> Invoices \cup {NoInvoice}]
    /\ payment \in [Payments -> [status : {"NEW", "APPROVED", "COMPLETED", "FAILED"},
                                 order : Orders \cup {NoOrder, ForeignOrder}]]
    /\ refund \in [Refunds -> {"NEW", "PENDING", "COMPLETED", "FAILED"}]
    /\ emitted \subseteq Events
    /\ acked \subseteq Events
    /\ faults \in 0..MaxFaults

(* Nobody is told an invoice is paid unless the money came in: whatever the
   interleaving, retry or lost reply, an invoice is PAID only if Square completed
   payments of that invoice's own order that add up to the amount due. *)
PaidIsCovered ==
    \A i \in Invoices : invoice[i].status = "PAID" => Total[CollectedFor(i)] >= Due[i]

(* A payment row never claims more than Square says: SUCCEEDED and the refund
   states only for a completed payment of the row's own invoice, REFUNDED only if
   the completed refunds cover the payment, PARTIALLY_REFUNDED only if some
   refund completed. *)
RowsAreReal ==
    \A p \in Payments :
        LET row == payRow[p] IN
        /\ row.status \in {"SUCCEEDED", "REFUNDED", "PARTIALLY_REFUNDED"}
              => p \in CollectedFor(row.inv)
        /\ row.status = "REFUNDED" => Total[CompletedRefunds(p)] >= Total[{p}]
        /\ row.status = "PARTIALLY_REFUNDED" => Total[CompletedRefunds(p)] > 0

(* At most one payable order ever exists for an invoice, across retries, failed
   writes and concurrent requests: the client cannot be charged on two links. *)
OneOrderPerInvoice ==
    \A o1, o2 \in Orders : orderRef[o1] = orderRef[o2] /\ orderRef[o1] # NoInvoice => o1 = o2

(* Once Square has been answered with 200 it never sends the event again, so the
   payment must be on record by then; and a payment on a Coletti link is never
   dismissed as unrelated. *)
AcknowledgedIsRecorded ==
    \A e \in PaymentEvents :
        payment[e[1]].order \in Orders =>
            /\ e \in acked => payRow[e[1]].status # "NONE"
            /\ ledger[e] # "IGNORED"

(* When Square has nothing left to deliver, an invoice whose completed payments
   cover it, none of them refunded, is PAID. *)
SettledIsPaid ==
    Settled =>
        \A i \in Invoices :
            /\ Total[CollectedFor(i)] >= Due[i]
            /\ \A p \in CollectedFor(i) : CompletedRefunds(p) = {}
            => invoice[i].status = "PAID"

(* An invoice, once PAID, is never reopened. *)
PaidStaysPaid ==
    [][\A i \in Invoices : invoice[i].status = "PAID" => invoice'[i].status = "PAID"]_vars

(* No promotion is lost between overlapping invocations: as long as no request has
   failed, an invoice that the recorded payments cover is PAID or an invocation that
   will see the total is on its way to it, whatever overlaps and in whatever order
   events are applied. *)
OnItsWay(i) ==
    \E w \in Workers : worker[w].inv = i /\ worker[w].pc \in {"readPaid", "patchInvoice"}

RecordedIsPaid ==
    faults = 0 =>
        \A i \in Invoices :
            Due[i] > 0 /\ Total[PaidRows(i)] >= Due[i]
                => invoice[i].status = "PAID" \/ OnItsWay(i)

(* What the documentation says of a promotion: it happens only in a state in which
   the recorded successful payments cover the invoice. *)
PromotedWhenCovered ==
    [][\A i \in Invoices : invoice[i].status # "PAID" /\ invoice'[i].status = "PAID"
                              => Total[PaidRows(i)] >= Due[i]]_vars

(* What billing promises of an invoice, see Receivables; holds as long as payment-link
   requests do not overlap.  Collected is what Square has completed, on record or not,
   and a draft can be paid as soon as it has a link. *)
Links     == [i \in Invoices |-> invoice[i].order]
Collected == [i \in Invoices |-> CollectedFor(i)]
States    == [i \in Invoices |-> IF invoice[i].status = "DRAFT" THEN "OPEN" ELSE invoice[i].status]

Promise == INSTANCE Receivables WITH link <- Links, collected <- Collected, state <- States

KeepsReceivables == Promise!Spec

(* Square is answered with 200 for every event it publishes, despite failed
   requests, lost replies and killed invocations, as long as they stop. *)
EveryEventIsAcknowledged == \A e \in Events : e \in emitted ~> e \in acked
================================================================================
