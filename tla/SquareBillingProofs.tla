-------------------------- MODULE SquareBillingProofs --------------------------
(***************************************************************************)
(* For every number of invoices, payments, refunds, concurrent invocations *)
(* and faults: the state of SquareBilling has its type, an invoice is PAID *)
(* only if Square collected the amount due on it, no payment row claims    *)
(* more than Square says, and no acknowledged event is lost.               *)
(*                                                                         *)
(* PaidIsCovered is not inductive.  The PATCH to PAID follows a read made  *)
(* in an earlier step, so the argument goes through what that read saw:    *)
(* rows are real (a SUCCEEDED row stands for a completed payment of its    *)
(* invoice's own order), a worker that is about to write carries a true    *)
(* fact about Square, and what Square has completed stays completed.       *)
(*                                                                         *)
(* The later parts take the concurrency away that breaks a rule, and no    *)
(* more of it.  Webhook invocations that do not overlap leave the ledger of*)
(* an acknowledged event alone and promote on the present total; link      *)
(* requests that do not overlap never reopen an invoice, and then billing  *)
(* implements Receivables; with both, and Square's events in order, every  *)
(* covered invoice is PAID once nothing is left to do.                     *)
(***************************************************************************)
EXTENDS SquareBilling, TLAPS

(* An invoice's link, written or about to be written, is an order of its own. *)
LinksAreReal ==
    /\ \A i \in Invoices : invoice[i].order # NoOrder => orderRef[invoice[i].order] = i
    /\ \A c \in Issuers :
          /\ issuer[c].pc # "idle" => issuer[c].inv \in Invoices
          /\ issuer[c].pc = "patch" => /\ issuer[c].order \in Orders
                                       /\ orderRef[issuer[c].order] = issuer[c].inv

(* Square published only what happened, and refunds only completed payments. *)
EventsAreReal ==
    /\ \A p \in Payments :
          /\ <<p, "COMPLETED">> \in emitted => payment[p].status = "COMPLETED"
          /\ payment[p].order \in Orders => orderRef[payment[p].order] \in Invoices
          /\ \A s : <<p, s>> \in emitted => payment[p].order # NoOrder
          /\ payment[p].status = "NEW" <=> payment[p].order = NoOrder
    /\ \A r \in Refunds :
          /\ <<r, "COMPLETED">> \in emitted => refund[r] = "COMPLETED"
          /\ refund[r] # "NEW" => payment[PaymentOf[r]].status = "COMPLETED"
          /\ \A s : <<r, s>> \in emitted => refund[r] # "NEW"

(* p was paid on an order created for invoice i. *)
PaidOn(p, i) == /\ i \in Invoices
                /\ payment[p].order \in Orders
                /\ orderRef[payment[p].order] = i

(* A recorded row belongs to the invoice its order was created for. *)
RowsAreLinked ==
    /\ \A p \in Payments : payRow[p].status # "NONE" => PaidOn(p, payRow[p].inv)
    /\ \A r \in Refunds : refRow[r] = "SUCCEEDED" => refund[r] = "COMPLETED"

AtPayment == {"findInvoice", "upsertPayment", "readPaid", "patchInvoice"}
AtRefund  == {"findParent", "upsertRefund", "readRefunds", "patchParent"}

WorkerRecord == [pc : WorkerPC, ev : Events \cup {NoEvent},
                 inv : Invoices \cup {NoInvoice}, set : PaymentRowStatus]

(* What an invocation whose control state is k knows when it writes. *)
Knows(k) ==
    /\ k.pc # "idle" => k.ev \in emitted
    /\ k.pc \in AtPayment => k.ev \in PaymentEvents
    /\ k.pc \in AtRefund => k.ev \in RefundEvents
    /\ k.pc \in {"upsertPayment", "readPaid", "patchInvoice"} => PaidOn(k.ev[1], k.inv)
    /\ k.pc \in {"upsertRefund", "readRefunds", "patchParent"}
          => payRow[PaymentOf[k.ev[1]]].status # "NONE"
    /\ k.pc = "patchInvoice" => Total[CollectedFor(k.inv)] >= Due[k.inv]
    /\ k.pc = "patchParent" =>
          LET p == PaymentOf[k.ev[1]] IN
          /\ k.set \in {"REFUNDED", "PARTIALLY_REFUNDED"}
          /\ k.set = "REFUNDED" => Total[CompletedRefunds(p)] >= Total[{p}]
          /\ k.set = "PARTIALLY_REFUNDED" => Total[CompletedRefunds(p)] > 0

WorkersAreReal == \A w \in Workers : Knows(worker[w])

IInv ==
    /\ TypeOK
    /\ LinksAreReal
    /\ EventsAreReal
    /\ RowsAreLinked
    /\ RowsAreReal
    /\ WorkersAreReal
    /\ PaidIsCovered

--------------------------------------------------------------------------------
(* The initial states satisfy the invariant: nothing has happened yet. *)
LEMMA InvInit == Init => IInv
<1> SUFFICES ASSUME Init PROVE IInv
  OBVIOUS
<1> USE ConstantsAssumption DEF Init, IdleWorker, IdleIssuer
<1>1. TypeOK
  BY DEF TypeOK, InvoiceStatus, PaymentRowStatus, RefundRowStatus, EventRowStatus,
         WorkerPC, InTry, IssuerPC
<1>2. LinksAreReal /\ EventsAreReal /\ RowsAreLinked /\ PaidIsCovered
  BY DEF LinksAreReal, EventsAreReal, RowsAreLinked, PaidIsCovered
<1>3. RowsAreReal
  BY DEF RowsAreReal
<1>4. WorkersAreReal
  BY DEF WorkersAreReal, Knows, AtPayment, AtRefund
<1> QED
  BY <1>1, <1>2, <1>3, <1>4 DEF IInv

(* A step of one webhook invocation that writes nothing but the ledger keeps the
   invariant if what the invocation then knows is true. *)
LEMMA WorkerMoves ==
    ASSUME IInv, NEW w \in Workers, NEW k \in WorkerRecord, Knows(k),
           worker' = [worker EXCEPT ![w] = k],
           ledger' \in [Events -> EventRowStatus],
           acked' \subseteq Events,
           faults' \in 0..MaxFaults,
           UNCHANGED <<invoice, payRow, refRow, issuer, square>>
    PROVE  IInv'
<1> USE DEF square
<1>1. TypeOK'
  BY DEF IInv, TypeOK, WorkerRecord
<1>2. /\ \A i : CollectedFor(i)' = CollectedFor(i)
      /\ \A p : CompletedRefunds(p)' = CompletedRefunds(p)
      /\ \A p, i : PaidOn(p, i)' = PaidOn(p, i)
  BY DEF CollectedFor, CompletedRefunds, PaidOn
<1>3. LinksAreReal' /\ EventsAreReal' /\ RowsAreLinked' /\ PaidIsCovered'
  BY <1>2 DEF IInv, LinksAreReal, EventsAreReal, RowsAreLinked, PaidIsCovered
<1>4. RowsAreReal'
  BY <1>2 DEF IInv, RowsAreReal
<1>5. WorkersAreReal'
  <2> SUFFICES ASSUME NEW v \in Workers PROVE Knows(worker[v])'
    BY DEF WorkersAreReal
  <2>1. worker[v] \in WorkerRecord /\ Knows(worker[v])
    BY DEF IInv, TypeOK, WorkerRecord, WorkersAreReal
  <2>2. worker'[v] = IF v = w THEN k ELSE worker[v]
    BY DEF IInv, TypeOK
  <2>3. ASSUME NEW x, Knows(x), worker'[v] = x PROVE Knows(worker[v])'
    BY <1>2, <2>3 DEF Knows
  <2> QED
    BY <2>1, <2>2, <2>3
<1> QED
  BY <1>1, <1>3, <1>4, <1>5 DEF IInv

(* The same for a step that changes only the control state of the invocation. *)
LEMMA WorkerAdvances ==
    ASSUME IInv, NEW w \in Workers, NEW pc \in WorkerPC,
           Knows([worker[w] EXCEPT !.pc = pc]),
           worker' = [worker EXCEPT ![w].pc = pc],
           ledger' \in [Events -> EventRowStatus],
           faults' \in 0..MaxFaults,
           UNCHANGED <<invoice, payRow, refRow, issuer, square, acked>>
    PROVE  IInv'
<1>1. [worker[w] EXCEPT !.pc = pc] \in WorkerRecord
  <2>1. worker[w] \in WorkerRecord
    BY DEF IInv, TypeOK, WorkerRecord
  <2> QED
    BY <2>1 DEF WorkerRecord
<1>2. acked' \subseteq Events
  BY DEF IInv, TypeOK
<1>3. worker' = [worker EXCEPT ![w] = [worker[w] EXCEPT !.pc = pc]]
  OBVIOUS
<1> QED
  BY <1>1, <1>2, <1>3, WorkerMoves

(* What a request's outcome does to the invocation and the fault count. *)
LEMMA Outcome ==
    ASSUME IInv, NEW w \in Workers, NEW pc
    PROVE  /\ Goes(w, pc) => /\ worker' = [worker EXCEPT ![w].pc = pc]
                             /\ faults' \in 0..MaxFaults
           /\ Throws(w) => /\ worker' = [worker EXCEPT ![w].pc = "markFailed"]
                           /\ faults' \in 0..MaxFaults
           /\ Written(w, pc) => \E x \in {pc, "markFailed"} :
                                  /\ worker' = [worker EXCEPT ![w].pc = x]
                                  /\ faults' \in 0..MaxFaults
BY ConstantsAssumption DEF IInv, TypeOK, Goes, Throws, Written

(* An invocation between requests knows that its event was published; the control
   states that write neither a payment, a refund nor an invoice need no more. *)
LEMMA KnowsLittle ==
    ASSUME IInv, NEW w \in Workers, ~At(w, "idle"),
           NEW pc \in {"insert", "eventState", "markProcessed", "markIgnored",
                       "markFailed", "reply"}
    PROVE  Knows([worker[w] EXCEPT !.pc = pc])
<1>1. worker[w] \in WorkerRecord /\ Ev(w) \in emitted
  BY DEF IInv, TypeOK, WorkersAreReal, Knows, At, Ev, WorkerRecord
<1>2. /\ [worker[w] EXCEPT !.pc = pc].pc = pc
      /\ [worker[w] EXCEPT !.pc = pc].ev = Ev(w)
  BY <1>1 DEF WorkerRecord, Ev
<1> QED
  BY <1>1, <1>2 DEF Knows, AtPayment, AtRefund

LEMMA KnowsDispatch ==
    ASSUME IInv, NEW w \in Workers, ~At(w, "idle")
    PROVE  Knows([worker[w] EXCEPT !.pc = DispatchTo(Ev(w))])
<1>1. Ev(w) \in Events /\ Ev(w) \in emitted /\ worker[w] \in WorkerRecord
  BY DEF IInv, TypeOK, WorkersAreReal, Knows, At, Ev, WorkerRecord
<1>2. [worker[w] EXCEPT !.pc = DispatchTo(Ev(w))].pc = DispatchTo(Ev(w))
      /\ [worker[w] EXCEPT !.pc = DispatchTo(Ev(w))].ev = Ev(w)
  BY <1>1 DEF WorkerRecord, Ev
<1>3. CASE Ev(w) \in PaymentEvents
  BY <1>1, <1>2, <1>3 DEF Knows, DispatchTo, AtPayment, AtRefund
<1>4. CASE Ev(w) \in RefundEvents /\ Ev(w) \notin PaymentEvents
  BY <1>1, <1>2, <1>4 DEF Knows, DispatchTo, AtPayment, AtRefund
<1> QED
  BY <1>1, <1>3, <1>4 DEF Events

(* An invocation that ends knows nothing. *)
LEMMA WorkerEnds ==
    ASSUME IInv, NEW w \in Workers,
           worker' = [worker EXCEPT ![w] = IdleWorker],
           ledger' \in [Events -> EventRowStatus],
           acked' \subseteq Events,
           faults' \in 0..MaxFaults,
           UNCHANGED <<invoice, payRow, refRow, issuer, square>>
    PROVE  IInv'
<1>1. IdleWorker \in WorkerRecord /\ Knows(IdleWorker)
  BY DEF IdleWorker, WorkerRecord, WorkerPC, PaymentRowStatus, Knows, AtPayment, AtRefund
<1> QED
  BY <1>1, WorkerMoves

--------------------------------------------------------------------------------
(* The steps of square-webhook that write only the ledger. *)
LEMMA LedgerSteps ==
    ASSUME IInv, NEW w \in Workers,
           \/ InsertEvent(w) \/ EventState(w)
           \/ MarkProcessed(w) \/ MarkIgnored(w) \/ MarkFailed(w) \/ Reply(w)
    PROVE  IInv'
<1>1. ledger \in [Events -> EventRowStatus] /\ acked \subseteq Events /\ faults \in 0..MaxFaults
  BY DEF IInv, TypeOK
<1>2. \A e \in Events : DispatchTo(e) \in WorkerPC
  BY DEF DispatchTo, WorkerPC, InTry
<1>3. ~At(w, "idle") => Ev(w) \in Events
  BY DEF At, Ev, IInv, TypeOK, WorkersAreReal, Knows
<1>4. CASE InsertEvent(w)
  <2>1. ~At(w, "idle")
    BY <1>4 DEF InsertEvent, At
  <2>2. PICK x \in {DispatchTo(Ev(w)), "eventState"} :
            /\ worker' = [worker EXCEPT ![w].pc = x]
            /\ faults' \in 0..MaxFaults
    BY <1>4, Outcome DEF InsertEvent
  <2>3. ledger' \in [Events -> EventRowStatus]
    BY <1>1, <1>4 DEF InsertEvent, EventRowStatus
  <2>4. UNCHANGED <<invoice, payRow, refRow, issuer, square, acked>>
    BY <1>4 DEF InsertEvent
  <2>5. x \in WorkerPC /\ Knows([worker[w] EXCEPT !.pc = x])
    BY <1>2, <1>3, <2>1, KnowsLittle, KnowsDispatch DEF WorkerPC
  <2> QED
    BY <2>2, <2>3, <2>4, <2>5, WorkerAdvances
<1>5. CASE EventState(w)
  <2>1. ~At(w, "idle")
    BY <1>5 DEF EventState, At
  <2>2. PICK x \in {DispatchTo(Ev(w)), "reply"} :
            /\ worker' = [worker EXCEPT ![w].pc = x]
            /\ faults' \in 0..MaxFaults
    BY <1>5, Outcome DEF EventState
  <2>3. ledger' \in [Events -> EventRowStatus]
    BY <1>1, <1>5 DEF EventState, tables
  <2>4. UNCHANGED <<invoice, payRow, refRow, issuer, square, acked>>
    BY <1>5 DEF EventState, tables
  <2>5. x \in WorkerPC /\ Knows([worker[w] EXCEPT !.pc = x])
    BY <1>2, <1>3, <2>1, KnowsLittle, KnowsDispatch DEF WorkerPC
  <2> QED
    BY <2>2, <2>3, <2>4, <2>5, WorkerAdvances
<1>6. CASE MarkProcessed(w) \/ MarkIgnored(w)
  <2>1. ~At(w, "idle") /\ Written(w, "reply")
    BY <1>6 DEF MarkProcessed, MarkIgnored, At
  <2>2. PICK x \in {"reply", "markFailed"} :
            /\ worker' = [worker EXCEPT ![w].pc = x]
            /\ faults' \in 0..MaxFaults
    BY <2>1, Outcome
  <2>3. ledger' \in [Events -> EventRowStatus]
    BY <1>1, <1>6 DEF MarkProcessed, MarkIgnored, EventRowStatus
  <2>4. UNCHANGED <<invoice, payRow, refRow, issuer, square, acked>>
    BY <1>6 DEF MarkProcessed, MarkIgnored
  <2>5. x \in WorkerPC /\ Knows([worker[w] EXCEPT !.pc = x])
    BY <2>1, KnowsLittle DEF WorkerPC
  <2> QED
    BY <2>2, <2>3, <2>4, <2>5, WorkerAdvances
<1>7. CASE MarkFailed(w)
  BY <1>1, <1>7, WorkerEnds DEF MarkFailed, EventRowStatus
<1>8. CASE Reply(w)
  <2>1. Ev(w) \in Events
    BY <1>3, <1>8 DEF Reply, At
  <2> QED
    BY <1>1, <1>8, <2>1, WorkerEnds DEF Reply, tables
<1> QED
  BY <1>4, <1>5, <1>6, <1>7, <1>8

--------------------------------------------------------------------------------
(* What Square has done is never undone, and a recorded row never disappears. *)
Grows ==
    /\ emitted \subseteq emitted'
    /\ \A p \in Payments : payRow[p].status # "NONE" => payRow'[p].status # "NONE"
    /\ \A p, i : PaidOn(p, i) => PaidOn(p, i)'
    /\ \A i : CollectedFor(i) \subseteq CollectedFor(i)'
    /\ \A p : CompletedRefunds(p) \subseteq CompletedRefunds(p)'

LEMMA EventParts ==
    /\ \A e \in PaymentEvents : e[1] \in Payments /\ e = <<e[1], e[2]>>
    /\ \A e \in RefundEvents : e[1] \in Refunds /\ e = <<e[1], e[2]>>
BY DEF PaymentEvents, RefundEvents

(* More collected or refunded never adds up to less. *)
LEMMA TotalsGrow ==
    ASSUME Grows
    PROVE  /\ \A i : /\ Total[CollectedFor(i)] \in Nat /\ Total[CollectedFor(i)'] \in Nat
                     /\ Total[CollectedFor(i)] <= Total[CollectedFor(i)']
           /\ \A p : /\ Total[CompletedRefunds(p)] \in Nat /\ Total[CompletedRefunds(p)'] \in Nat
                     /\ Total[CompletedRefunds(p)] <= Total[CompletedRefunds(p)']
           /\ \A p \in Payments : Total[{p}] \in Nat
<1>1. /\ \A i : CollectedFor(i) \in DOMAIN Total /\ CollectedFor(i)' \in DOMAIN Total
      /\ \A p : CompletedRefunds(p) \in DOMAIN Total /\ CompletedRefunds(p)' \in DOMAIN Total
      /\ \A p \in Payments : {p} \in DOMAIN Total
  BY TotalAssumption DEF CollectedFor, CompletedRefunds
<1> QED
  BY <1>1, TotalAssumption DEF Grows

(* What an invocation knows stays true. *)
LEMMA KnowsGrows ==
    ASSUME IInv, Grows, NEW k \in WorkerRecord, Knows(k)
    PROVE  Knows(k)'
<1>1. /\ k.pc # "idle" => k.ev \in emitted'
      /\ k.pc \in AtPayment => k.ev \in PaymentEvents
      /\ k.pc \in AtRefund => k.ev \in RefundEvents
      /\ k.pc \in {"upsertPayment", "readPaid", "patchInvoice"} => PaidOn(k.ev[1], k.inv)'
  BY DEF Knows, Grows
<1>2. k.pc \in {"upsertRefund", "readRefunds", "patchParent"}
         => payRow'[PaymentOf[k.ev[1]]].status # "NONE"
  <2> SUFFICES ASSUME k.pc \in {"upsertRefund", "readRefunds", "patchParent"}
               PROVE  payRow'[PaymentOf[k.ev[1]]].status # "NONE"
    OBVIOUS
  <2>1. PaymentOf[k.ev[1]] \in Payments
    BY EventParts, ConstantsAssumption DEF Knows, AtRefund
  <2> QED
    BY <2>1 DEF Knows, Grows
<1>3. k.pc = "patchInvoice" => Total[CollectedFor(k.inv)'] >= Due[k.inv]
  BY TotalsGrow, ConstantsAssumption DEF Knows, PaidOn
<1>4. k.pc = "patchParent" =>
          LET p == PaymentOf[k.ev[1]] IN
          /\ k.set \in {"REFUNDED", "PARTIALLY_REFUNDED"}
          /\ k.set = "REFUNDED" => Total[CompletedRefunds(p)'] >= Total[{p}]
          /\ k.set = "PARTIALLY_REFUNDED" => Total[CompletedRefunds(p)'] > 0
  <2> SUFFICES ASSUME k.pc = "patchParent"
               PROVE  LET p == PaymentOf[k.ev[1]] IN
                      /\ k.set \in {"REFUNDED", "PARTIALLY_REFUNDED"}
                      /\ k.set = "REFUNDED" => Total[CompletedRefunds(p)'] >= Total[{p}]
                      /\ k.set = "PARTIALLY_REFUNDED" => Total[CompletedRefunds(p)'] > 0
    OBVIOUS
  <2>1. PaymentOf[k.ev[1]] \in Payments
    BY EventParts, ConstantsAssumption DEF Knows, AtRefund
  <2> QED
    BY <2>1, TotalsGrow DEF Knows
<1> QED
  BY <1>1, <1>2, <1>3, <1>4 DEF Knows

LEMMA WorkersGrow ==
    ASSUME IInv, Grows, NEW w \in Workers, NEW k,
           worker' = [worker EXCEPT ![w] = k], Knows(k)'
    PROVE  WorkersAreReal'
<1> SUFFICES ASSUME NEW v \in Workers PROVE Knows(worker[v])'
  BY DEF WorkersAreReal
<1>1. worker[v] \in WorkerRecord /\ Knows(worker[v])
  BY DEF IInv, TypeOK, WorkerRecord, WorkersAreReal
<1>2. worker'[v] = IF v = w THEN k ELSE worker[v]
  BY DEF IInv, TypeOK
<1>3. ASSUME NEW x, Knows(x)', worker'[v] = x PROVE Knows(worker[v])'
  BY <1>3 DEF Knows
<1> QED
  BY <1>1, <1>2, <1>3, KnowsGrows

LEMMA WorkersWait ==
    ASSUME IInv, Grows, UNCHANGED worker
    PROVE  WorkersAreReal'
<1> SUFFICES ASSUME NEW v \in Workers PROVE Knows(worker[v])'
  BY DEF WorkersAreReal
<1>1. worker[v] \in WorkerRecord /\ Knows(worker[v])
  BY DEF IInv, TypeOK, WorkerRecord, WorkersAreReal
<1>2. ASSUME NEW x, Knows(x)', worker'[v] = x PROVE Knows(worker[v])'
  BY <1>2 DEF Knows
<1> QED
  BY <1>1, <1>2, KnowsGrows

--------------------------------------------------------------------------------
(* The steps of square-webhook that only read. *)
LEMMA ReadSteps ==
    ASSUME IInv, NEW w \in Workers,
           \/ FindInvoiceByOrder(w) \/ ReadPaid(w) \/ FindParent(w) \/ ReadRefunds(w)
    PROVE  IInv'
<1>1. /\ ledger \in [Events -> EventRowStatus] /\ acked \subseteq Events
      /\ faults \in 0..MaxFaults /\ worker[w] \in WorkerRecord
  BY DEF IInv, TypeOK, WorkerRecord
<1>2. Knows(worker[w])
  BY DEF IInv, WorkersAreReal
<1>3. CASE FindInvoiceByOrder(w)
  <2> DEFINE p == Ev(w)[1]
  <2>1. /\ worker[w].pc = "findInvoice" /\ ~At(w, "idle")
        /\ Ev(w) \in PaymentEvents /\ Ev(w) \in emitted
    BY <1>2, <1>3 DEF FindInvoiceByOrder, At, Ev, Knows, AtPayment
  <2>2. p \in Payments /\ payment[p].order \in (Orders \cup {ForeignOrder, NoOrder}) \ {NoOrder}
    <3>1. p \in Payments /\ <<p, Ev(w)[2]>> \in emitted
      BY <2>1, EventParts
    <3>2. payment[p].order # NoOrder
      BY <3>1 DEF IInv, EventsAreReal
    <3>3. payment[p].order \in Orders \cup {NoOrder, ForeignOrder}
      BY <3>1 DEF IInv, TypeOK
    <3> QED
      BY <3>1, <3>2, <3>3
  <2>3. UNCHANGED <<ledger, acked, faults, invoice, payRow, refRow, issuer, square>>
    BY <1>3 DEF FindInvoiceByOrder, tables
  <2>4. ASSUME NEW i \in Invoices, invoice[i].order = payment[p].order,
               worker' = [worker EXCEPT ![w].pc = "upsertPayment", ![w].inv = i]
        PROVE  IInv'
    <3> DEFINE k == [worker[w] EXCEPT !.pc = "upsertPayment", !.inv = i]
    <3>1. worker' = [worker EXCEPT ![w] = k]
      BY <2>4, <1>1 DEF IInv, TypeOK
    <3>2. k \in WorkerRecord /\ k.pc = "upsertPayment" /\ k.ev = Ev(w) /\ k.inv = i
      BY <1>1 DEF WorkerRecord, WorkerPC, InTry, Ev
    <3>3. PaidOn(p, i)
      BY <2>2, <2>4, ConstantsAssumption DEF PaidOn, IInv, LinksAreReal, TypeOK
    <3>4. Knows(k)
      BY <2>1, <3>2, <3>3 DEF Knows, AtPayment, AtRefund
    <3> QED
      BY <1>1, <2>3, <3>1, <3>2, <3>4, WorkerMoves
  <2>5. ASSUME worker' = [worker EXCEPT ![w].pc = "markIgnored"] PROVE IInv'
    BY <1>1, <2>1, <2>3, <2>5, KnowsLittle, WorkerAdvances DEF WorkerPC, InTry
  <2> QED
    BY <1>3, <2>4, <2>5 DEF FindInvoiceByOrder
<1>4. CASE ReadPaid(w)
  <2> DEFINE i == worker[w].inv
  <2>1. /\ worker[w].pc = "readPaid" /\ ~At(w, "idle") /\ i \in Invoices
        /\ Ev(w) \in PaymentEvents /\ Ev(w) \in emitted /\ PaidOn(Ev(w)[1], i)
    BY <1>2, <1>4 DEF ReadPaid, At, Ev, Knows, AtPayment, PaidOn
  <2>2. UNCHANGED <<ledger, acked, invoice, payRow, refRow, issuer, square>>
    BY <1>4 DEF ReadPaid, tables
  <2>3. CASE Goes(w, "patchInvoice") /\ Total[PaidRows(i)] >= Due[i]
    <3> DEFINE k == [worker[w] EXCEPT !.pc = "patchInvoice"]
    <3>1. PaidRows(i) \subseteq CollectedFor(i)
      BY DEF PaidRows, IInv, RowsAreReal
    <3>2. PaidRows(i) \in DOMAIN Total /\ CollectedFor(i) \in DOMAIN Total
      BY TotalAssumption DEF PaidRows, CollectedFor
    <3>3. Total[CollectedFor(i)] >= Due[i]
      BY <2>1, <2>3, <3>1, <3>2, TotalAssumption, ConstantsAssumption
    <3>4. k.pc = "patchInvoice" /\ k.ev = Ev(w) /\ k.inv = i
      BY <1>1 DEF WorkerRecord, Ev
    <3>5. Knows(k)
      BY <2>1, <3>3, <3>4 DEF Knows, AtPayment, AtRefund
    <3> QED
      BY <1>1, <2>2, <2>3, <3>5, Outcome, WorkerAdvances DEF WorkerPC, InTry
  <2>4. CASE Goes(w, "markProcessed")
    BY <1>1, <2>1, <2>2, <2>4, Outcome, KnowsLittle, WorkerAdvances DEF WorkerPC, InTry
  <2> QED
    BY <1>4, <2>3, <2>4 DEF ReadPaid
<1>5. CASE FindParent(w)
  <2>1. /\ worker[w].pc = "findParent" /\ ~At(w, "idle")
        /\ Ev(w) \in RefundEvents /\ Ev(w) \in emitted
    BY <1>2, <1>5 DEF FindParent, At, Ev, Knows, AtRefund
  <2>2. UNCHANGED <<ledger, acked, invoice, payRow, refRow, issuer, square>>
    BY <1>5 DEF FindParent, tables
  <2>3. CASE Goes(w, "upsertRefund") /\ payRow[PaymentOf[Ev(w)[1]]].status # "NONE"
    <3> DEFINE k == [worker[w] EXCEPT !.pc = "upsertRefund"]
    <3>1. k.pc = "upsertRefund" /\ k.ev = Ev(w)
      BY <1>1 DEF WorkerRecord, Ev
    <3>2. Knows(k)
      BY <2>1, <2>3, <3>1 DEF Knows, AtPayment, AtRefund
    <3> QED
      BY <1>1, <2>2, <2>3, <3>2, Outcome, WorkerAdvances DEF WorkerPC, InTry
  <2>4. CASE Goes(w, "markIgnored")
    BY <1>1, <2>1, <2>2, <2>4, Outcome, KnowsLittle, WorkerAdvances DEF WorkerPC, InTry
  <2> QED
    BY <1>5, <2>3, <2>4 DEF FindParent
<1>6. CASE ReadRefunds(w)
  <2> DEFINE p == PaymentOf[Ev(w)[1]]
             refunded == Total[RefundedRows(p)]
  <2>1. /\ worker[w].pc = "readRefunds" /\ ~At(w, "idle")
        /\ Ev(w) \in RefundEvents /\ Ev(w) \in emitted /\ payRow[p].status # "NONE"
    BY <1>2, <1>6 DEF ReadRefunds, At, Ev, Knows, AtRefund
  <2>2. UNCHANGED <<ledger, acked, faults, invoice, payRow, refRow, issuer, square>>
    BY <1>6 DEF ReadRefunds, tables
  <2>3. p \in Payments
    BY <2>1, EventParts, ConstantsAssumption
  <2>4. RefundedRows(p) \subseteq CompletedRefunds(p)
    BY DEF RefundedRows, CompletedRefunds, IInv, RowsAreLinked
  <2>5. /\ RefundedRows(p) \in DOMAIN Total /\ CompletedRefunds(p) \in DOMAIN Total
        /\ {p} \in DOMAIN Total
    BY <2>3, TotalAssumption DEF RefundedRows, CompletedRefunds
  <2>6. /\ refunded <= Total[CompletedRefunds(p)]
        /\ refunded \in Nat /\ Total[CompletedRefunds(p)] \in Nat /\ Total[{p}] \in Nat
    BY <2>4, <2>5, TotalAssumption
  <2>7. ASSUME refunded > 0,
               NEW st, st = (IF refunded >= Total[{p}] THEN "REFUNDED" ELSE "PARTIALLY_REFUNDED"),
               worker' = [worker EXCEPT ![w].pc = "patchParent", ![w].set = st]
        PROVE  IInv'
    <3> DEFINE k == [worker[w] EXCEPT !.pc = "patchParent", !.set = st]
    <3>1. worker' = [worker EXCEPT ![w] = k]
      BY <2>7, <1>1 DEF IInv, TypeOK
    <3>2. k \in WorkerRecord /\ k.pc = "patchParent" /\ k.ev = Ev(w) /\ k.set = st
      BY <1>1, <2>7 DEF WorkerRecord, WorkerPC, InTry, PaymentRowStatus, Ev
    <3>3. /\ st \in {"REFUNDED", "PARTIALLY_REFUNDED"}
          /\ st = "REFUNDED" => Total[CompletedRefunds(p)] >= Total[{p}]
          /\ st = "PARTIALLY_REFUNDED" => Total[CompletedRefunds(p)] > 0
      BY <2>6, <2>7
    <3>4. Knows(k)
      BY <2>1, <3>2, <3>3 DEF Knows, AtPayment, AtRefund
    <3> QED
      BY <1>1, <2>2, <3>1, <3>2, <3>4, WorkerMoves
  <2>8. ASSUME worker' = [worker EXCEPT ![w].pc = "markProcessed"] PROVE IInv'
    BY <1>1, <2>1, <2>2, <2>8, KnowsLittle, WorkerAdvances DEF WorkerPC, InTry
  <2> QED
    BY <1>6, <2>7, <2>8 DEF ReadRefunds
<1> QED
  BY <1>3, <1>4, <1>5, <1>6

--------------------------------------------------------------------------------
(* The writes of square-webhook to the billing tables. *)

(* Without a change at Square, Square's side of every fact is unchanged. *)
LEMMA SquareStill ==
    ASSUME UNCHANGED square,
           \A p \in Payments : payRow[p].status # "NONE" => payRow'[p].status # "NONE"
    PROVE  /\ Grows
           /\ \A i : CollectedFor(i)' = CollectedFor(i)
           /\ \A p : CompletedRefunds(p)' = CompletedRefunds(p)
           /\ \A p, i : PaidOn(p, i)' = PaidOn(p, i)
BY DEF square, Grows, CollectedFor, CompletedRefunds, PaidOn

(* The control state after a write, whether or not its reply arrived. *)
LEMMA AfterWrite ==
    ASSUME IInv, Grows, NEW w \in Workers, NEW pc \in WorkerPC,
           Written(w, pc), ~At(w, "idle"),
           NEW k, k = [worker[w] EXCEPT !.pc = pc], Knows(k)'
    PROVE  /\ WorkersAreReal'
           /\ worker' \in [Workers -> WorkerRecord]
           /\ faults' \in 0..MaxFaults
<1>1. PICK f : f = [worker[w] EXCEPT !.pc = "markFailed"]
  OBVIOUS
<1>2. worker[w] \in WorkerRecord /\ worker \in [Workers -> WorkerRecord]
  BY DEF IInv, TypeOK, WorkerRecord
<1>3. k \in WorkerRecord /\ f \in WorkerRecord
  BY <1>1, <1>2 DEF WorkerRecord, WorkerPC
<1>4. Knows(f)
  BY <1>1, KnowsLittle
<1>5. Knows(f)'
  BY <1>3, <1>4, KnowsGrows
<1>6. PICK x \in {k, f} : worker' = [worker EXCEPT ![w] = x] /\ faults' \in 0..MaxFaults
  <2>1. PICK y \in {pc, "markFailed"} : /\ worker' = [worker EXCEPT ![w].pc = y]
                                        /\ faults' \in 0..MaxFaults
    BY Outcome
  <2> QED
    BY <1>1, <2>1
<1>7. Knows(x)'
  BY <1>5, <1>6
<1> QED
  BY <1>2, <1>3, <1>6, <1>7, WorkersGrow

LEMMA UpsertPaymentStep ==
    ASSUME IInv, NEW w \in Workers, UpsertPayment(w) PROVE IInv'
<1> DEFINE p  == Ev(w)[1]
           i  == worker[w].inv
           st == paymentStatus(Ev(w)[2])
           pc == IF st = "SUCCEEDED" THEN "readPaid" ELSE "markProcessed"
<1>1. /\ worker[w] \in WorkerRecord /\ Knows(worker[w])
      /\ worker[w].pc = "upsertPayment" /\ ~At(w, "idle")
  BY DEF IInv, TypeOK, WorkerRecord, WorkersAreReal, UpsertPayment, At
<1>2. /\ Ev(w) \in PaymentEvents /\ Ev(w) \in emitted /\ p \in Payments
      /\ Ev(w) = <<p, Ev(w)[2]>> /\ PaidOn(p, i) /\ i \in Invoices
  BY <1>1, EventParts DEF Knows, AtPayment, Ev, PaidOn
<1>3. /\ payRow' = [payRow EXCEPT ![p] = [status |-> st, inv |-> i]]
      /\ Written(w, pc)
      /\ UNCHANGED <<invoice, refRow, ledger, issuer, square, acked>>
  BY DEF UpsertPayment
<1>4. st \in {"PENDING", "SUCCEEDED", "FAILED"} /\ (st = "SUCCEEDED" => Ev(w)[2] = "COMPLETED")
  BY DEF paymentStatus
<1>5. st = "SUCCEEDED" => p \in CollectedFor(i)
  BY <1>2, <1>4 DEF CollectedFor, PaidOn, IInv, EventsAreReal
<1>6. /\ payRow \in [Payments -> [status : PaymentRowStatus, inv : Invoices \cup {NoInvoice}]]
      /\ payRow' \in [Payments -> [status : PaymentRowStatus, inv : Invoices \cup {NoInvoice}]]
      /\ \A q \in Payments : payRow'[q] = IF q = p THEN [status |-> st, inv |-> i] ELSE payRow[q]
  <2> HIDE DEF st, i, p
  <2>1. payRow \in [Payments -> [status : PaymentRowStatus, inv : Invoices \cup {NoInvoice}]]
    BY DEF IInv, TypeOK
  <2>2. [status |-> st, inv |-> i] \in [status : PaymentRowStatus, inv : Invoices \cup {NoInvoice}]
    BY <1>2, <1>4 DEF PaymentRowStatus
  <2> QED
    BY <1>2, <1>3, <2>1, <2>2
<1>7. /\ Grows
      /\ \A x : CollectedFor(x)' = CollectedFor(x)
      /\ \A x : CompletedRefunds(x)' = CompletedRefunds(x)
      /\ \A x, y : PaidOn(x, y)' = PaidOn(x, y)
  BY <1>3, <1>4, <1>6, SquareStill
<1>8. PICK k : k = [worker[w] EXCEPT !.pc = pc]
  OBVIOUS
<1>9. k.pc = pc /\ k.ev = Ev(w) /\ k.inv = i /\ k \in WorkerRecord
  BY <1>1, <1>8 DEF WorkerRecord, WorkerPC, InTry, Ev
<1>10. Knows(k)
  BY <1>2, <1>9 DEF Knows, AtPayment, AtRefund
<1>11. /\ WorkersAreReal' /\ worker' \in [Workers -> WorkerRecord] /\ faults' \in 0..MaxFaults
  <2>1. pc \in WorkerPC
    BY DEF WorkerPC, InTry
  <2>2. Knows(k)'
    BY <1>7, <1>9, <1>10, KnowsGrows
  <2> HIDE DEF pc
  <2> QED
    BY <1>1, <1>3, <1>7, <1>8, <2>1, <2>2, AfterWrite
<1>12. TypeOK'
  BY <1>3, <1>6, <1>11 DEF IInv, TypeOK, WorkerRecord, square
<1>13. LinksAreReal' /\ EventsAreReal' /\ PaidIsCovered'
  BY <1>3, <1>7 DEF IInv, LinksAreReal, EventsAreReal, PaidIsCovered, square
<1>14. RowsAreLinked'
  BY <1>2, <1>3, <1>6, <1>7 DEF IInv, RowsAreLinked, square
<1>15. RowsAreReal'
  BY <1>4, <1>5, <1>6, <1>7 DEF IInv, RowsAreReal
<1> QED
  BY <1>11, <1>12, <1>13, <1>14, <1>15 DEF IInv

LEMMA PatchInvoiceStep ==
    ASSUME IInv, NEW w \in Workers, PatchInvoice(w) PROVE IInv'
<1> DEFINE i == worker[w].inv
<1>1. /\ worker[w] \in WorkerRecord /\ Knows(worker[w])
      /\ worker[w].pc = "patchInvoice" /\ ~At(w, "idle")
  BY DEF IInv, TypeOK, WorkerRecord, WorkersAreReal, PatchInvoice, At
<1>2. i \in Invoices /\ Total[CollectedFor(i)] >= Due[i]
  BY <1>1 DEF Knows, PaidOn
<1>3. /\ invoice' = [invoice EXCEPT ![i].status = "PAID"]
      /\ Written(w, "markProcessed")
      /\ UNCHANGED <<payRow, refRow, ledger, issuer, square, acked>>
  BY DEF PatchInvoice
<1>4. /\ invoice' \in [Invoices -> [status : InvoiceStatus, order : Orders \cup {NoOrder}]]
      /\ \A j \in Invoices : /\ invoice'[j].order = invoice[j].order
                             /\ j # i => invoice'[j].status = invoice[j].status
  <2>1. invoice \in [Invoices -> [status : InvoiceStatus, order : Orders \cup {NoOrder}]]
    BY DEF IInv, TypeOK
  <2> QED
    BY <1>2, <1>3, <2>1 DEF InvoiceStatus
<1>5. /\ Grows
      /\ \A x : CollectedFor(x)' = CollectedFor(x)
      /\ \A x : CompletedRefunds(x)' = CompletedRefunds(x)
      /\ \A x, y : PaidOn(x, y)' = PaidOn(x, y)
  BY <1>3, SquareStill
<1>6. PICK k : k = [worker[w] EXCEPT !.pc = "markProcessed"]
  OBVIOUS
<1>7. k \in WorkerRecord /\ Knows(k)
  BY <1>1, <1>6, KnowsLittle DEF WorkerRecord, WorkerPC, InTry
<1>8. /\ WorkersAreReal' /\ worker' \in [Workers -> WorkerRecord] /\ faults' \in 0..MaxFaults
  <2>1. "markProcessed" \in WorkerPC
    BY DEF WorkerPC, InTry
  <2>2. Knows(k)'
    BY <1>5, <1>7, KnowsGrows
  <2> QED
    BY <1>1, <1>3, <1>5, <1>6, <2>1, <2>2, AfterWrite
<1>9. TypeOK'
  BY <1>3, <1>4, <1>8 DEF IInv, TypeOK, WorkerRecord, square
<1>10. LinksAreReal' /\ EventsAreReal' /\ RowsAreLinked'
  BY <1>3, <1>4, <1>5 DEF IInv, LinksAreReal, EventsAreReal, RowsAreLinked, square
<1>11. RowsAreReal'
  BY <1>3, <1>5 DEF IInv, RowsAreReal
<1>12. PaidIsCovered'
  BY <1>2, <1>4, <1>5 DEF IInv, PaidIsCovered
<1> QED
  BY <1>8, <1>9, <1>10, <1>11, <1>12 DEF IInv

LEMMA UpsertRefundStep ==
    ASSUME IInv, NEW w \in Workers, UpsertRefund(w) PROVE IInv'
<1> DEFINE r  == Ev(w)[1]
           st == refundStatus(Ev(w)[2])
<1>1. /\ worker[w] \in WorkerRecord /\ Knows(worker[w])
      /\ worker[w].pc = "upsertRefund" /\ ~At(w, "idle")
  BY DEF IInv, TypeOK, WorkerRecord, WorkersAreReal, UpsertRefund, At
<1>2. /\ Ev(w) \in RefundEvents /\ Ev(w) \in emitted /\ r \in Refunds
      /\ Ev(w) = <<r, Ev(w)[2]>> /\ payRow[PaymentOf[r]].status # "NONE"
  BY <1>1, EventParts DEF Knows, AtRefund, Ev
<1>3. /\ refRow' = [refRow EXCEPT ![r] = st]
      /\ Written(w, "readRefunds")
      /\ UNCHANGED <<invoice, payRow, ledger, issuer, square, acked>>
  BY DEF UpsertRefund
<1>4. st \in RefundRowStatus /\ (st = "SUCCEEDED" => Ev(w)[2] = "COMPLETED")
  BY DEF refundStatus, RefundRowStatus
<1>5. st = "SUCCEEDED" => refund[r] = "COMPLETED"
  BY <1>2, <1>4 DEF IInv, EventsAreReal
<1>6. /\ refRow' \in [Refunds -> RefundRowStatus]
      /\ \A x \in Refunds : refRow'[x] = IF x = r THEN st ELSE refRow[x]
  <2> HIDE DEF st, r
  <2> QED
    BY <1>2, <1>3, <1>4 DEF IInv, TypeOK
<1>7. /\ Grows
      /\ \A x : CollectedFor(x)' = CollectedFor(x)
      /\ \A x : CompletedRefunds(x)' = CompletedRefunds(x)
      /\ \A x, y : PaidOn(x, y)' = PaidOn(x, y)
  BY <1>3, SquareStill
<1>8. PICK k : k = [worker[w] EXCEPT !.pc = "readRefunds"]
  OBVIOUS
<1>9. k.pc = "readRefunds" /\ k.ev = Ev(w) /\ k \in WorkerRecord
  BY <1>1, <1>8 DEF WorkerRecord, WorkerPC, InTry, Ev
<1>10. Knows(k)
  BY <1>2, <1>9 DEF Knows, AtPayment, AtRefund
<1>11. /\ WorkersAreReal' /\ worker' \in [Workers -> WorkerRecord] /\ faults' \in 0..MaxFaults
  <2>1. "readRefunds" \in WorkerPC
    BY DEF WorkerPC, InTry
  <2>2. Knows(k)'
    BY <1>7, <1>9, <1>10, KnowsGrows
  <2> QED
    BY <1>1, <1>3, <1>7, <1>8, <2>1, <2>2, AfterWrite
<1>12. TypeOK'
  BY <1>3, <1>6, <1>11 DEF IInv, TypeOK, WorkerRecord, square
<1>13. LinksAreReal' /\ EventsAreReal' /\ PaidIsCovered'
  BY <1>3, <1>7 DEF IInv, LinksAreReal, EventsAreReal, PaidIsCovered, square
<1>14. RowsAreLinked'
  BY <1>3, <1>5, <1>6, <1>7 DEF IInv, RowsAreLinked, square
<1>15. RowsAreReal'
  BY <1>3, <1>7 DEF IInv, RowsAreReal
<1> QED
  BY <1>11, <1>12, <1>13, <1>14, <1>15 DEF IInv

LEMMA PatchParentStep ==
    ASSUME IInv, NEW w \in Workers, PatchParent(w) PROVE IInv'
<1> DEFINE r  == Ev(w)[1]
           p  == PaymentOf[r]
           st == worker[w].set
<1>1. /\ worker[w] \in WorkerRecord /\ Knows(worker[w])
      /\ worker[w].pc = "patchParent" /\ ~At(w, "idle")
  BY DEF IInv, TypeOK, WorkerRecord, WorkersAreReal, PatchParent, At
<1>2. /\ Ev(w) \in RefundEvents /\ Ev(w) \in emitted /\ r \in Refunds /\ p \in Payments
      /\ Ev(w) = <<r, Ev(w)[2]>> /\ payRow[p].status # "NONE"
  BY <1>1, EventParts, ConstantsAssumption DEF Knows, AtRefund, Ev
<1>3. /\ payRow' = [payRow EXCEPT ![p].status = st]
      /\ Written(w, "markProcessed")
      /\ UNCHANGED <<invoice, refRow, ledger, issuer, square, acked>>
  BY DEF PatchParent
<1>4. /\ st \in {"REFUNDED", "PARTIALLY_REFUNDED"}
      /\ st = "REFUNDED" => Total[CompletedRefunds(p)] >= Total[{p}]
      /\ st = "PARTIALLY_REFUNDED" => Total[CompletedRefunds(p)] > 0
  BY <1>1 DEF Knows, Ev
<1>5. p \in CollectedFor(payRow[p].inv)
  <2>1. refund[r] # "NEW"
    BY <1>2 DEF IInv, EventsAreReal
  <2>2. payment[p].status = "COMPLETED"
    BY <1>2, <2>1 DEF IInv, EventsAreReal
  <2> QED
    BY <1>2, <2>2 DEF IInv, RowsAreLinked, PaidOn, CollectedFor
<1>6. /\ payRow' \in [Payments -> [status : PaymentRowStatus, inv : Invoices \cup {NoInvoice}]]
      /\ \A q \in Payments : /\ payRow'[q].inv = payRow[q].inv
                             /\ payRow'[q].status = IF q = p THEN st ELSE payRow[q].status
  <2>1. payRow \in [Payments -> [status : PaymentRowStatus, inv : Invoices \cup {NoInvoice}]]
    BY DEF IInv, TypeOK
  <2>2. st \in PaymentRowStatus
    BY <1>4 DEF PaymentRowStatus
  <2> HIDE DEF st, p
  <2> QED
    BY <1>2, <1>3, <2>1, <2>2
<1>7. /\ Grows
      /\ \A x : CollectedFor(x)' = CollectedFor(x)
      /\ \A x : CompletedRefunds(x)' = CompletedRefunds(x)
      /\ \A x, y : PaidOn(x, y)' = PaidOn(x, y)
  BY <1>3, <1>4, <1>6, SquareStill
<1>8. PICK k : k = [worker[w] EXCEPT !.pc = "markProcessed"]
  OBVIOUS
<1>9. k \in WorkerRecord /\ Knows(k)
  BY <1>1, <1>8, KnowsLittle DEF WorkerRecord, WorkerPC, InTry
<1>10. /\ WorkersAreReal' /\ worker' \in [Workers -> WorkerRecord] /\ faults' \in 0..MaxFaults
  <2>1. "markProcessed" \in WorkerPC
    BY DEF WorkerPC, InTry
  <2>2. Knows(k)'
    BY <1>7, <1>9, KnowsGrows
  <2> QED
    BY <1>1, <1>3, <1>7, <1>8, <2>1, <2>2, AfterWrite
<1>11. TypeOK'
  BY <1>3, <1>6, <1>10 DEF IInv, TypeOK, WorkerRecord, square
<1>12. LinksAreReal' /\ EventsAreReal' /\ PaidIsCovered'
  BY <1>3, <1>7 DEF IInv, LinksAreReal, EventsAreReal, PaidIsCovered, square
<1>13. RowsAreLinked'
  BY <1>2, <1>3, <1>6, <1>7 DEF IInv, RowsAreLinked, square
<1>14. RowsAreReal'
  BY <1>4, <1>5, <1>6, <1>7 DEF IInv, RowsAreReal
<1> QED
  BY <1>10, <1>11, <1>12, <1>13, <1>14 DEF IInv

(* Failed requests, lost replies and killed invocations. *)
LEMMA FaultSteps ==
    ASSUME IInv, NEW w \in Workers, WebhookFault(w) PROVE IInv'
<1>1. /\ ledger \in [Events -> EventRowStatus] /\ acked \subseteq Events
      /\ faults \in 0..MaxFaults
  BY DEF IInv, TypeOK
<1>2. CASE Refused(w)
  <2>1. ~At(w, "idle")
    BY <1>2 DEF Refused, At, InTry
  <2>2. UNCHANGED <<invoice, payRow, refRow, ledger, issuer, square, acked>>
    BY <1>2 DEF Refused, tables
  <2>3. worker' = [worker EXCEPT ![w].pc = "markFailed"] /\ faults' \in 0..MaxFaults
    BY <1>2, Outcome DEF Refused
  <2> QED
    BY <1>1, <2>1, <2>2, <2>3, KnowsLittle, WorkerAdvances DEF WorkerPC
<1>3. CASE Dies(w)
  <2>1. faults' \in 0..MaxFaults
    BY <1>1, <1>3, ConstantsAssumption DEF Dies
  <2> QED
    BY <1>1, <1>3, <2>1, WorkerEnds DEF Dies, tables
<1>4. CASE InsertUnanswered(w)
  <2>1. faults' \in 0..MaxFaults
    BY <1>1, <1>4, ConstantsAssumption DEF InsertUnanswered
  <2> QED
    BY <1>1, <1>4, <2>1, WorkerEnds DEF InsertUnanswered, EventRowStatus
<1> QED
  BY <1>2, <1>3, <1>4 DEF WebhookFault

LEMMA DeliverStep ==
    ASSUME IInv, NEW w \in Workers, NEW e \in Events, Deliver(w, e) PROVE IInv'
<1> DEFINE k == [IdleWorker EXCEPT !.pc = "insert", !.ev = e]
<1>1. /\ ledger \in [Events -> EventRowStatus] /\ acked \subseteq Events
      /\ faults \in 0..MaxFaults
  BY DEF IInv, TypeOK
<1>2. k \in WorkerRecord /\ k.pc = "insert" /\ k.ev = e
  BY DEF IdleWorker, WorkerRecord, WorkerPC, PaymentRowStatus
<1>3. Knows(k)
  BY <1>2 DEF Knows, AtPayment, AtRefund, Deliver, Owed
<1> QED
  BY <1>1, <1>2, <1>3, WorkerMoves DEF Deliver, tables

--------------------------------------------------------------------------------
(* square-create-payment-link *)

(* Whatever an issuer does leaves the rows and the invocations of the webhook
   alone; the invariant holds if Square's side grows and the links are real. *)
LEMMA OthersStep ==
    ASSUME IInv, Grows, TypeOK', LinksAreReal', EventsAreReal', PaidIsCovered',
           UNCHANGED <<payRow, refRow, worker>>,
           \A r \in Refunds : refund[r] = "COMPLETED" => refund'[r] = "COMPLETED"
    PROVE  IInv'
<1>1. WorkersAreReal'
  BY WorkersWait
<1>2. RowsAreLinked'
  <2>1. \A p \in Payments : payRow[p].status # "NONE" => PaidOn(p, payRow[p].inv)'
    BY DEF IInv, RowsAreLinked, Grows
  <2> QED
    BY <2>1 DEF IInv, RowsAreLinked, PaidOn
<1>3. RowsAreReal'
  <2> SUFFICES ASSUME NEW p \in Payments
               PROVE  LET row == payRow[p] IN
                      /\ row.status \in {"SUCCEEDED", "REFUNDED", "PARTIALLY_REFUNDED"}
                            => p \in CollectedFor(row.inv)'
                      /\ row.status = "REFUNDED" => Total[CompletedRefunds(p)'] >= Total[{p}]
                      /\ row.status = "PARTIALLY_REFUNDED" => Total[CompletedRefunds(p)'] > 0
    BY DEF RowsAreReal, CollectedFor
  <2> QED
    BY TotalsGrow DEF IInv, RowsAreReal, Grows
<1> QED
  BY <1>1, <1>2, <1>3 DEF IInv

LEMMA IssuerSteps ==
    ASSUME IInv, NEW c \in Issuers, IssuerStep(c) PROVE IInv'
<1> USE ConstantsAssumption
<1>1. CASE \E i \in Invoices : ReadInvoice(c, i)
  <2>1. UNCHANGED <<tables, worker, square, acked, faults>>
    BY <1>1 DEF ReadInvoice
  <2>2. TypeOK'
    BY <1>1, <2>1 DEF IInv, TypeOK, ReadInvoice, tables, square, IssuerPC
  <2>3. LinksAreReal'
    BY <1>1, <2>1 DEF IInv, TypeOK, LinksAreReal, ReadInvoice, tables, square
  <2>4. EventsAreReal' /\ PaidIsCovered'
    BY <2>1, SquareStill DEF IInv, EventsAreReal, PaidIsCovered, tables, square
  <2> QED
    BY <2>1, <2>2, <2>3, <2>4, SquareStill, OthersStep DEF tables, square
<1>2. CASE CreateLink(c)
  <2> DEFINE i == issuer[c].inv
  <2>1. /\ UNCHANGED <<tables, worker, payment, refund, emitted, acked, faults>>
        /\ i \in Invoices
    BY <1>2 DEF CreateLink, IInv, LinksAreReal
  <2>2. PICK o \in Orders :
            /\ orderRef[o] \in {i, NoInvoice}
            /\ orderRef' = [orderRef EXCEPT ![o] = i]
            /\ issuer' = [issuer EXCEPT ![c].pc = "patch", ![c].order = o]
    BY <1>2 DEF CreateLink, SameKey
  <2>3. /\ \A x \in Orders : orderRef[x] # NoInvoice => orderRef'[x] = orderRef[x]
        /\ orderRef'[o] = i
        /\ orderRef' \in [Orders -> Invoices \cup {NoInvoice}]
    BY <2>1, <2>2 DEF IInv, TypeOK
  <2>4. Grows
    <3>1. \A p, j : PaidOn(p, j) => PaidOn(p, j)'
      BY <2>1, <2>3 DEF PaidOn
    <3>2. \A j : CollectedFor(j) \subseteq CollectedFor(j)'
      BY <2>1, <2>3 DEF CollectedFor, IInv, EventsAreReal
    <3> QED
      BY <2>1, <3>1, <3>2 DEF Grows, CompletedRefunds, tables
  <2>5. TypeOK'
    <3>1. issuer' \in [Issuers -> [pc : IssuerPC, inv : Invoices \cup {NoInvoice},
                                    order : Orders \cup {NoOrder}]]
      <4>1. PICK d : d = [issuer[c] EXCEPT !.pc = "patch", !.order = o]
        OBVIOUS
      <4>2. issuer \in [Issuers -> [pc : IssuerPC, inv : Invoices \cup {NoInvoice},
                                    order : Orders \cup {NoOrder}]]
        BY DEF IInv, TypeOK
      <4>3. d \in [pc : IssuerPC, inv : Invoices \cup {NoInvoice}, order : Orders \cup {NoOrder}]
        BY <4>1, <4>2 DEF IssuerPC
      <4>4. issuer' = [issuer EXCEPT ![c] = d]
        BY <2>2, <4>1, <4>2
      <4> QED
        BY <4>2, <4>3, <4>4
    <3> QED
      BY <2>1, <2>3, <3>1 DEF IInv, TypeOK, tables
  <2>6. LinksAreReal'
    <3>1. \A j \in Invoices : invoice[j].order # NoOrder =>
                orderRef'[invoice[j].order] = j /\ invoice'[j] = invoice[j]
      BY <2>1, <2>3 DEF IInv, TypeOK, LinksAreReal, tables
    <3>2. \A d \in Issuers : d # c => issuer'[d] = issuer[d]
      BY <2>2 DEF IInv, TypeOK
    <3>3. issuer'[c].pc = "patch" /\ issuer'[c].inv = i /\ issuer'[c].order = o
      BY <2>2 DEF IInv, TypeOK
    <3> QED
      BY <2>1, <2>3, <3>1, <3>2, <3>3 DEF IInv, LinksAreReal, tables
  <2>7. EventsAreReal'
    BY <2>1, <2>3 DEF IInv, EventsAreReal
  <2>8. PaidIsCovered'
    BY <2>1, <2>4, TotalsGrow DEF IInv, PaidIsCovered, tables
  <2> QED
    BY <2>1, <2>4, <2>5, <2>6, <2>7, <2>8, OthersStep DEF tables
<1>3. CASE PatchLink(c)
  <2> DEFINE i == issuer[c].inv
  <2>1. /\ UNCHANGED <<payRow, refRow, ledger, worker, square, acked, faults>>
        /\ i \in Invoices /\ issuer[c].order \in Orders /\ orderRef[issuer[c].order] = i
    BY <1>3 DEF PatchLink, IInv, LinksAreReal
  <2>2. /\ invoice' = [invoice EXCEPT ![i] = [status |-> "OPEN", order |-> issuer[c].order]]
        /\ issuer' = [issuer EXCEPT ![c] = IdleIssuer]
    BY <1>3 DEF PatchLink
  <2>3. TypeOK'
    BY <2>1, <2>2 DEF IInv, TypeOK, square, IdleIssuer, IssuerPC, InvoiceStatus
  <2>4. LinksAreReal'
    BY <2>1, <2>2 DEF IInv, TypeOK, LinksAreReal, square, IdleIssuer
  <2>5. Grows /\ \A x : CollectedFor(x)' = CollectedFor(x)
    BY <2>1, SquareStill
  <2>6. EventsAreReal' /\ PaidIsCovered'
    BY <2>1, <2>2, <2>5 DEF IInv, TypeOK, EventsAreReal, PaidIsCovered, square
  <2> QED
    BY <2>1, <2>3, <2>4, <2>5, <2>6, OthersStep DEF square
<1>4. CASE Abandon(c)
  <2>1. UNCHANGED <<tables, worker, square, acked, faults>>
    BY <1>4 DEF Abandon
  <2>2. TypeOK'
    BY <1>4, <2>1 DEF IInv, TypeOK, Abandon, tables, square, IssuerPC, IdleIssuer
  <2>3. LinksAreReal'
    BY <1>4, <2>1 DEF IInv, TypeOK, LinksAreReal, Abandon, tables, square, IdleIssuer
  <2>4. EventsAreReal' /\ PaidIsCovered'
    BY <2>1, SquareStill DEF IInv, EventsAreReal, PaidIsCovered, tables, square
  <2> QED
    BY <2>1, <2>2, <2>3, <2>4, SquareStill, OthersStep DEF tables, square
<1> QED
  BY <1>1, <1>2, <1>3, <1>4 DEF IssuerStep

--------------------------------------------------------------------------------
(* The office, the client and Square *)
LEMMA SquareSteps ==
    ASSUME IInv, SquareStep PROVE IInv'
<1> USE ConstantsAssumption
<1>1. ASSUME NEW i \in Invoices, OfficeVoids(i) PROVE IInv'
  <2>1. UNCHANGED <<payRow, refRow, ledger, worker, issuer, square, acked, faults>>
    BY <1>1 DEF OfficeVoids
  <2>2. invoice \in [Invoices -> [status : InvoiceStatus, order : Orders \cup {NoOrder}]]
    BY DEF IInv, TypeOK
  <2>3. /\ invoice' \in [Invoices -> [status : InvoiceStatus, order : Orders \cup {NoOrder}]]
        /\ \A j \in Invoices : /\ invoice'[j].order = invoice[j].order
                               /\ invoice'[j].status \in {invoice[j].status, "VOID"}
    BY <1>1, <2>2 DEF OfficeVoids, InvoiceStatus
  <2>4. TypeOK'
    BY <2>1, <2>3 DEF IInv, TypeOK, square
  <2>5. Grows /\ \A x : CollectedFor(x)' = CollectedFor(x)
    BY <2>1, SquareStill
  <2>6. LinksAreReal' /\ EventsAreReal' /\ PaidIsCovered'
    BY <2>1, <2>3, <2>5 DEF IInv, LinksAreReal, EventsAreReal, PaidIsCovered, square
  <2> QED
    BY <2>1, <2>4, <2>5, <2>6, OthersStep DEF square
<1>2. ASSUME NEW p \in Payments, NEW s \in {"APPROVED", "COMPLETED", "FAILED"},
             PaymentStarts(p, s) \/ PaymentMoves(p, s)
      PROVE  IInv'
  <2>1. /\ UNCHANGED <<tables, worker, issuer, orderRef, refund, acked, faults>>
        /\ emitted' = emitted \cup {<<p, s>>}
        /\ payment[p].status \in {"NEW", "APPROVED"}
    BY <1>2 DEF PaymentStarts, PaymentMoves
  <2>2. /\ payment \in [Payments -> [status : {"NEW", "APPROVED", "COMPLETED", "FAILED"},
                                    order : Orders \cup {NoOrder, ForeignOrder}]]
        /\ \A i \in Invoices : invoice[i].order \in Orders \cup {NoOrder}
    BY DEF IInv, TypeOK
  <2>3. PICK o \in Orders \cup {ForeignOrder, payment[p].order} :
            /\ payment' = [payment EXCEPT ![p] = [status |-> s, order |-> o]]
            /\ o # NoOrder
            /\ o \in Orders => orderRef[o] \in Invoices
            /\ payment[p].status = "APPROVED" => o = payment[p].order
    <3>1. CASE PaymentStarts(p, s)
      <4>1. PICK x \in {invoice[i].order : i \in Invoices} \cup {ForeignOrder} :
                /\ x # NoOrder
                /\ payment' = [payment EXCEPT ![p] = [status |-> s, order |-> x]]
        BY <3>1 DEF PaymentStarts
      <4>2. x \in Orders => orderRef[x] \in Invoices
        BY <4>1 DEF IInv, LinksAreReal
      <4>3. payment[p].status = "NEW" /\ x \in Orders \cup {ForeignOrder}
        BY <2>2, <3>1, <4>1 DEF PaymentStarts
      <4> QED
        BY <4>1, <4>2, <4>3
    <3>2. CASE PaymentMoves(p, s)
      <4>1. payment' = [payment EXCEPT ![p] = [status |-> s, order |-> payment[p].order]]
        <5>1. [payment[p] EXCEPT !.status = s] = [status |-> s, order |-> payment[p].order]
          BY <2>2
        <5>2. payment' = [payment EXCEPT ![p] = [payment[p] EXCEPT !.status = s]]
          BY <3>2 DEF PaymentMoves
        <5> QED
          BY <5>1, <5>2
      <4>2. payment[p].order # NoOrder
        BY <2>2, <3>2 DEF PaymentMoves, IInv, EventsAreReal
      <4> QED
        BY <3>2, <4>1, <4>2 DEF PaymentMoves, IInv, EventsAreReal
    <3> QED
      BY <1>2, <3>1, <3>2
  <2>4. /\ payment' \in [Payments -> [status : {"NEW", "APPROVED", "COMPLETED", "FAILED"},
                                     order : Orders \cup {NoOrder, ForeignOrder}]]
        /\ payment'[p] = [status |-> s, order |-> o]
        /\ \A q \in Payments : q # p => payment'[q] = payment[q]
    BY <2>2, <2>3
  <2>5. Grows
    <3>1. \A q, j : PaidOn(q, j) => PaidOn(q, j)'
      <4> SUFFICES ASSUME NEW q, NEW j, PaidOn(q, j) PROVE PaidOn(q, j)'
        OBVIOUS
      <4>1. CASE q = p
        BY <2>1, <2>2, <2>3, <2>4, <4>1 DEF PaidOn, IInv, EventsAreReal
      <4>2. CASE q # p
        BY <2>1, <2>3, <4>2 DEF PaidOn
      <4> QED
        BY <4>1, <4>2
    <3>2. \A j : CollectedFor(j) \subseteq CollectedFor(j)'
      BY <2>1, <2>4 DEF CollectedFor
    <3> QED
      BY <2>1, <3>1, <3>2 DEF Grows, CompletedRefunds, tables
  <2>6. TypeOK'
    BY <2>1, <2>4 DEF IInv, TypeOK, tables, Events, PaymentEvents
  <2>7. LinksAreReal'
    BY <2>1 DEF IInv, LinksAreReal, tables
  <2>8. EventsAreReal'
    <3>1. \A q \in Payments :
             /\ <<q, "COMPLETED">> \in emitted' => payment'[q].status = "COMPLETED"
             /\ payment'[q].order \in Orders => orderRef'[payment'[q].order] \in Invoices
             /\ \A t : <<q, t>> \in emitted' => payment'[q].order # NoOrder
             /\ payment'[q].status = "NEW" <=> payment'[q].order = NoOrder
      <4> SUFFICES ASSUME NEW q \in Payments
                   PROVE  /\ <<q, "COMPLETED">> \in emitted' => payment'[q].status = "COMPLETED"
                          /\ payment'[q].order \in Orders
                                => orderRef'[payment'[q].order] \in Invoices
                          /\ \A t : <<q, t>> \in emitted' => payment'[q].order # NoOrder
                          /\ payment'[q].status = "NEW" <=> payment'[q].order = NoOrder
        OBVIOUS
      <4>1. CASE q = p
        <5>1. <<p, "COMPLETED">> \notin emitted
          BY <2>1 DEF IInv, EventsAreReal
        <5>2. <<p, "COMPLETED">> \in emitted' => s = "COMPLETED"
          BY <2>1, <5>1
        <5>3. o \in Orders => orderRef'[o] \in Invoices
          BY <2>1, <2>3
        <5> QED
          BY <2>3, <2>4, <4>1, <5>2, <5>3
      <4>2. CASE q # p
        <5>1. \A t : <<q, t>> \in emitted' => <<q, t>> \in emitted
          BY <2>1, <4>2
        <5> QED
          BY <2>1, <2>4, <4>2, <5>1 DEF IInv, EventsAreReal
      <4> QED
        BY <4>1, <4>2
    <3>2. \A r \in Refunds :
             /\ \A t : <<r, t>> \in emitted' => <<r, t>> \in emitted
             /\ refund[r] # "NEW" => payment'[PaymentOf[r]].status = "COMPLETED"
      BY <2>1, <2>4 DEF IInv, EventsAreReal
    <3> QED
      BY <2>1, <3>1, <3>2 DEF IInv, EventsAreReal
  <2>9. PaidIsCovered'
    BY <2>1, <2>5, TotalsGrow DEF IInv, PaidIsCovered, tables
  <2> QED
    BY <2>1, <2>5, <2>6, <2>7, <2>8, <2>9, OthersStep DEF tables
<1>3. ASSUME NEW r \in Refunds, NEW s \in {"PENDING", "COMPLETED", "FAILED"}, RefundMoves(r, s)
      PROVE  IInv'
  <2>1. /\ UNCHANGED <<tables, worker, issuer, orderRef, payment, acked, faults>>
        /\ emitted' = emitted \cup {<<r, s>>}
        /\ refund' = [refund EXCEPT ![r] = s]
        /\ refund[r] \in {"NEW", "PENDING"}
        /\ payment[PaymentOf[r]].status = "COMPLETED"
    BY <1>3 DEF RefundMoves, IInv, EventsAreReal
  <2>2. /\ refund' \in [Refunds -> {"NEW", "PENDING", "COMPLETED", "FAILED"}]
        /\ refund'[r] = s
        /\ \A x \in Refunds : x # r => refund'[x] = refund[x]
    BY <2>1 DEF IInv, TypeOK
  <2>3. Grows
    BY <2>1, <2>2 DEF Grows, CompletedRefunds, CollectedFor, PaidOn, tables
  <2>4. TypeOK'
    BY <2>1, <2>2 DEF IInv, TypeOK, tables, Events, RefundEvents
  <2>5. LinksAreReal'
    BY <2>1 DEF IInv, LinksAreReal, tables
  <2>6. EventsAreReal'
    <3>1. \A q \in Payments : \A t : <<q, t>> \in emitted' => <<q, t>> \in emitted
      BY <2>1
    <3>2. \A x \in Refunds :
             /\ <<x, "COMPLETED">> \in emitted' => refund'[x] = "COMPLETED"
             /\ refund'[x] # "NEW" => payment[PaymentOf[x]].status = "COMPLETED"
             /\ \A t : <<x, t>> \in emitted' => refund'[x] # "NEW"
      BY <2>1, <2>2 DEF IInv, EventsAreReal
    <3> QED
      BY <2>1, <3>1, <3>2 DEF IInv, EventsAreReal
  <2>7. PaidIsCovered'
    BY <2>1, <2>3, TotalsGrow DEF IInv, PaidIsCovered, tables
  <2> QED
    BY <2>1, <2>2, <2>3, <2>4, <2>5, <2>6, <2>7, OthersStep DEF tables
<1> QED
  BY <1>1, <1>2, <1>3 DEF SquareStep

--------------------------------------------------------------------------------
LEMMA InvStep == IInv /\ [Next]_vars => IInv'
<1> SUFFICES ASSUME IInv, [Next]_vars PROVE IInv'
  OBVIOUS
<1>1. ASSUME NEW w \in Workers, NEW e \in Events, Deliver(w, e) PROVE IInv'
  BY <1>1, DeliverStep
<1>2. ASSUME NEW w \in Workers, WebhookStep(w) PROVE IInv'
  BY <1>2, LedgerSteps, ReadSteps, UpsertPaymentStep, PatchInvoiceStep,
     UpsertRefundStep, PatchParentStep DEF WebhookStep
<1>3. ASSUME NEW w \in Workers, WebhookFault(w) PROVE IInv'
  BY <1>3, FaultSteps
<1>4. ASSUME NEW c \in Issuers, IssuerStep(c) PROVE IInv'
  BY <1>4, IssuerSteps
<1>5. CASE SquareStep
  BY <1>5, SquareSteps
<1>6. CASE UNCHANGED vars
  <2>1. UNCHANGED <<tables, worker, issuer, square, acked, faults>>
    BY <1>6 DEF vars
  <2>2. TypeOK' /\ LinksAreReal'
    BY <2>1 DEF IInv, TypeOK, LinksAreReal, tables, square
  <2>3. EventsAreReal' /\ PaidIsCovered'
    BY <2>1, SquareStill DEF IInv, EventsAreReal, PaidIsCovered, tables, square
  <2> QED
    BY <2>1, <2>2, <2>3, SquareStill, OthersStep DEF tables, square
<1> QED
  BY <1>1, <1>2, <1>3, <1>4, <1>5, <1>6 DEF Next

(* The inductive invariant holds in every reachable state. *)
THEOREM Invariant == Spec => []IInv
BY InvInit, InvStep, PTL DEF Spec

(* Every reachable state of SquareBilling has its type. *)
THEOREM TypeCorrect == Spec => []TypeOK
<1>1. IInv => TypeOK
  BY DEF IInv
<1> QED
  BY <1>1, Invariant, PTL

(* An invoice is PAID only if Square completed payments of its own order that add
   up to the amount due: for any number of overlapping webhook and payment-link
   invocations, any order of deliveries and any number of faults. *)
THEOREM PaidOnlyIfCollected == Spec => []PaidIsCovered
<1>1. IInv => PaidIsCovered
  BY DEF IInv
<1> QED
  BY <1>1, Invariant, PTL

(* A payment row never claims more than Square says. *)
THEOREM RowsTellTheTruth == Spec => []RowsAreReal
<1>1. IInv => RowsAreReal
  BY DEF IInv
<1> QED
  BY <1>1, Invariant, PTL

--------------------------------------------------------------------------------
(* Two orders are never created for the same invoice: the client has one link to
   pay an invoice on, however many requests raced or failed half-way. *)
THEOREM OneLinkPerInvoice == Spec => []OneOrderPerInvoice
<1>1. Init => OneOrderPerInvoice
  BY DEF Init, OneOrderPerInvoice
<1>2. IInv /\ OneOrderPerInvoice /\ [Next]_vars => OneOrderPerInvoice'
  <2> SUFFICES ASSUME IInv, OneOrderPerInvoice, [Next]_vars PROVE OneOrderPerInvoice'
    OBVIOUS
  <2>1. CASE UNCHANGED orderRef
    BY <2>1 DEF OneOrderPerInvoice
  <2>2. ASSUME NEW c \in Issuers, CreateLink(c) PROVE OneOrderPerInvoice'
    <3> DEFINE i     == issuer[c].inv
               known == {o \in Orders : orderRef[o] = i}
    <3>1. orderRef \in [Orders -> Invoices \cup {NoInvoice}]
      BY DEF IInv, TypeOK
    <3>2. CASE known # {}
      <4>1. PICK o \in known : orderRef' = [orderRef EXCEPT ![o] = i]
        BY <2>2, <3>2 DEF CreateLink, SameKey
      <4> QED
        BY <3>1, <4>1 DEF OneOrderPerInvoice
    <3>3. CASE known = {}
      <4>1. PICK o \in Orders : orderRef' = [orderRef EXCEPT ![o] = i]
        BY <2>2, <3>3 DEF CreateLink, SameKey
      <4> QED
        BY <3>1, <3>3, <4>1 DEF OneOrderPerInvoice
    <3> QED
      BY <3>2, <3>3
  <2>3. ASSUME NEW w \in Workers, WebhookStep(w) \/ WebhookFault(w)
        PROVE  UNCHANGED orderRef
    BY <2>3 DEF WebhookStep, WebhookFault, InsertEvent, EventState, FindInvoiceByOrder,
       UpsertPayment, ReadPaid, PatchInvoice, FindParent, UpsertRefund, ReadRefunds,
       PatchParent, MarkProcessed, MarkIgnored, MarkFailed, Reply, Refused, Dies,
       InsertUnanswered, square
  <2>4. ASSUME NEW w \in Workers, NEW e \in Events, Deliver(w, e) PROVE UNCHANGED orderRef
    BY <2>4 DEF Deliver, square
  <2>5. ASSUME NEW c \in Issuers, IssuerStep(c) PROVE CreateLink(c) \/ UNCHANGED orderRef
    BY <2>5 DEF IssuerStep, ReadInvoice, PatchLink, Abandon, square
  <2>6. SquareStep => UNCHANGED orderRef
    BY DEF SquareStep, OfficeVoids, PaymentStarts, PaymentMoves, RefundMoves, square
  <2> QED
    BY <2>1, <2>2, <2>3, <2>4, <2>5, <2>6 DEF Next, vars, square
<1> QED
  BY <1>1, <1>2, Invariant, PTL DEF Spec

--------------------------------------------------------------------------------
(* What one step of the invocation w does, seen from its control state before
   (worker[w]) and after (worker'[w]).  The invariants below rest on these facts
   and not on the single requests. *)

(* The control state is x now; the event and the findings are the same. *)
Becomes(w, x) ==
    /\ worker'[w].pc = x
    /\ worker'[w].ev = worker[w].ev
    /\ worker'[w].inv = worker[w].inv

Alone(w) == \A v \in Workers : v # w => worker'[v] = worker[v]

(* Each row is written only by the request that names it. *)
Writes(w) ==
    /\ \A e \in Events : ledger'[e] # ledger[e] =>
          /\ e = Ev(w)
          /\ \/ At(w, "insert") /\ ledger'[e] = "RECEIVED"
             \/ At(w, "markProcessed") /\ ledger'[e] = "PROCESSED"
             \/ At(w, "markIgnored") /\ ledger'[e] = "IGNORED"
             \/ At(w, "markFailed") /\ ledger'[e] = "FAILED"
    /\ \/ acked' = acked
       \/ At(w, "reply") /\ worker'[w].pc = "idle" /\ acked' = acked \cup {Ev(w)}
    /\ \A p \in Payments : payRow'[p] # payRow[p] =>
          \/ /\ At(w, "upsertPayment") /\ p = Ev(w)[1]
             /\ payRow'[p].status = paymentStatus(Ev(w)[2])
          \/ /\ At(w, "patchParent") /\ p = PaymentOf[Ev(w)[1]]
             /\ payRow'[p].status = worker[w].set
             /\ payRow'[p].inv = payRow[p].inv
    /\ \A i \in Invoices :
          /\ invoice'[i].order = invoice[i].order
          /\ invoice'[i].status # invoice[i].status =>
                At(w, "patchInvoice") /\ i = worker[w].inv /\ invoice'[i].status = "PAID"

(* Why the invocation is where it is now. *)
Grounds(w) ==
    LET e  == Ev(w)
        pc == worker'[w].pc
    IN  /\ pc = "reply" =>
              \/ At(w, "markProcessed") /\ ledger'[e] = "PROCESSED"
              \/ At(w, "markIgnored") /\ ledger'[e] = "IGNORED"
              \/ At(w, "eventState") /\ ledger'[e] \in {"PROCESSED", "IGNORED"}
        /\ pc = "markProcessed" =>
              \/ At(w, "upsertPayment") /\ payRow'[e[1]].status = paymentStatus(e[2])
                    /\ paymentStatus(e[2]) # "SUCCEEDED"
              \/ At(w, "readPaid") /\ ~(Total[PaidRows(worker[w].inv)] >= Due[worker[w].inv])
              \/ At(w, "patchInvoice") /\ invoice'[worker[w].inv].status = "PAID"
              \/ worker[w].pc \in {"readRefunds", "patchParent"}
        /\ pc = "markIgnored" =>
              \/ At(w, "findInvoice") /\ \A i \in Invoices : invoice[i].order # payment[e[1]].order
              \/ At(w, "findParent")
        /\ pc = "patchInvoice" =>
              At(w, "readPaid") /\ Total[PaidRows(worker[w].inv)] >= Due[worker[w].inv]
        /\ pc = "readPaid" => At(w, "upsertPayment") /\ payRow'[e[1]].status = "SUCCEEDED"
        /\ pc = "upsertPayment" => At(w, "findInvoice")
        /\ pc = "findInvoice" =>
              worker[w].pc \in {"insert", "eventState"} /\ ledger'[e] \notin {"PROCESSED", "IGNORED"}
        /\ pc = "patchParent" =>
              At(w, "readRefunds") /\ Total[RefundedRows(PaymentOf[e[1]])] > 0
        /\ pc # "insert"

Effect(w) ==
    /\ ~At(w, "idle")
    /\ Alone(w)
    /\ worker'[w].pc = "idle" \/ worker'[w].ev = Ev(w)
    /\ worker'[w].pc \in {"readPaid", "patchInvoice"} => worker'[w].inv = worker[w].inv
    /\ UNCHANGED <<issuer, square>>
    /\ Writes(w)
    /\ Grounds(w)

LEMMA ControlMoves ==
    ASSUME IInv, NEW w \in Workers
    PROVE  /\ \A x : Goes(w, x) => Becomes(w, x) /\ Alone(w)
           /\ Throws(w) => Becomes(w, "markFailed") /\ Alone(w)
           /\ \A x : Written(w, x) => /\ Becomes(w, x) \/ Becomes(w, "markFailed")
                                      /\ Alone(w)
           /\ worker' = [worker EXCEPT ![w] = IdleWorker] => worker'[w].pc = "idle" /\ Alone(w)
<1>1. worker \in [Workers -> WorkerRecord]
  BY DEF IInv, TypeOK, WorkerRecord
<1>2. ASSUME NEW x, worker' = [worker EXCEPT ![w].pc = x] PROVE Becomes(w, x) /\ Alone(w)
  BY <1>1, <1>2 DEF WorkerRecord, Becomes, Alone
<1>3. worker' = [worker EXCEPT ![w] = IdleWorker] => worker'[w].pc = "idle" /\ Alone(w)
  BY <1>1 DEF IdleWorker, Alone
<1> QED
  BY <1>2, <1>3 DEF Goes, Throws, Written

LEMMA WebhookEffect ==
    ASSUME IInv, NEW w \in Workers, WebhookStep(w) \/ WebhookFault(w)
    PROVE  Effect(w)
<1>1. /\ ledger \in [Events -> EventRowStatus]
      /\ payRow \in [Payments -> [status : PaymentRowStatus, inv : Invoices \cup {NoInvoice}]]
      /\ invoice \in [Invoices -> [status : InvoiceStatus, order : Orders \cup {NoOrder}]]
      /\ worker \in [Workers -> WorkerRecord]
      /\ Knows(worker[w])
  BY DEF IInv, TypeOK, WorkerRecord, WorkersAreReal
<1>2. ~At(w, "idle") => Ev(w) \in Events
  BY DEF At, Ev, IInv, TypeOK, WorkersAreReal, Knows
<1> USE DEF At, Becomes
<1>3. CASE InsertEvent(w)
  BY <1>1, <1>2, <1>3, ControlMoves
     DEF InsertEvent, Effect, Writes, Grounds, square, DispatchTo, Ev
<1>4. CASE EventState(w)
  BY <1>1, <1>4, ControlMoves
     DEF EventState, Effect, Writes, Grounds, tables, square, DispatchTo, Ev
<1>5. CASE FindInvoiceByOrder(w)
  BY <1>1, <1>5 DEF FindInvoiceByOrder, Effect, Writes, Grounds, tables, square, Alone, Ev,
     WorkerRecord
<1>6. CASE UpsertPayment(w)
  <2>1. Ev(w)[1] \in Payments
    BY <1>1, <1>6, EventParts DEF UpsertPayment, Knows, AtPayment, Ev
  <2> QED
    BY <1>1, <1>6, <2>1, ControlMoves DEF UpsertPayment, Effect, Writes, Grounds, square, Ev
<1>7. CASE ReadPaid(w)
  BY <1>1, <1>7, ControlMoves DEF ReadPaid, Effect, Writes, Grounds, tables, square, Ev
<1>8. CASE PatchInvoice(w)
  <2>1. worker[w].inv \in Invoices
    BY <1>1, <1>8 DEF PatchInvoice, Knows, PaidOn
  <2> QED
    BY <1>1, <1>8, <2>1, ControlMoves DEF PatchInvoice, Effect, Writes, Grounds, square, Ev
<1>9. CASE FindParent(w)
  BY <1>1, <1>9, ControlMoves DEF FindParent, Effect, Writes, Grounds, tables, square, Ev
<1>10. CASE UpsertRefund(w)
  BY <1>1, <1>10, ControlMoves DEF UpsertRefund, Effect, Writes, Grounds, square, Ev
<1>11. CASE ReadRefunds(w)
  BY <1>1, <1>11 DEF ReadRefunds, Effect, Writes, Grounds, tables, square, Alone, Ev,
     WorkerRecord
<1>12. CASE PatchParent(w)
  BY <1>1, <1>12, ControlMoves DEF PatchParent, Effect, Writes, Grounds, square, Ev
<1>13. CASE MarkProcessed(w) \/ MarkIgnored(w)
  BY <1>1, <1>2, <1>13, ControlMoves
     DEF MarkProcessed, MarkIgnored, Effect, Writes, Grounds, square, Ev
<1>14. CASE MarkFailed(w)
  BY <1>1, <1>14, ControlMoves DEF MarkFailed, Effect, Writes, Grounds, square, Ev
<1>15. CASE Reply(w)
  BY <1>1, <1>15, ControlMoves DEF Reply, Effect, Writes, Grounds, tables, square, Ev
<1>16. CASE Refused(w)
  BY <1>1, <1>16, ControlMoves DEF Refused, InTry, Effect, Writes, Grounds, tables, square, Ev
<1>17. CASE Dies(w)
  BY <1>1, <1>17, ControlMoves DEF Dies, Effect, Writes, Grounds, tables, square, Ev
<1>18. CASE InsertUnanswered(w)
  BY <1>1, <1>2, <1>18, ControlMoves DEF InsertUnanswered, Effect, Writes, Grounds, square, Ev
<1> QED
  BY <1>3, <1>4, <1>5, <1>6, <1>7, <1>8, <1>9, <1>10, <1>11, <1>12, <1>13, <1>14, <1>15,
     <1>16, <1>17, <1>18 DEF WebhookStep, WebhookFault

--------------------------------------------------------------------------------
(* Nothing acknowledged is lost.  AcknowledgedIsRecorded is not inductive: the
   ledger entry and the 200 come several requests after the row is written, and an
   event is dismissed on the answer of a read.  The invariant says that the invoice
   a payment was made on still shows the payment's order, so that the read finds
   it, and that an invocation past its write, or past a PROCESSED entry, stands
   for a row that exists. *)

(* The event of a payment on a Coletti link. *)
Ours(e) == e \in PaymentEvents /\ payment[e[1]].order \in Orders

Recorded(e) == payRow[e[1]].status # "NONE"

LinksStay ==
    \A p \in Payments : payment[p].order \in Orders =>
        invoice[orderRef[payment[p].order]].order = payment[p].order

LedgerFollows ==
    /\ acked \subseteq emitted
    /\ \A e \in Events : ledger[e] # "NONE" => e \in emitted

NothingLost ==
    \A e \in PaymentEvents : Ours(e) =>
        /\ e \in acked \/ ledger[e] = "PROCESSED" => Recorded(e)
        /\ ledger[e] # "IGNORED"

Remembers ==
    \A w \in Workers : ~At(w, "idle") /\ Ours(Ev(w)) =>
        /\ worker[w].pc \in {"readPaid", "patchInvoice", "markProcessed", "reply"}
              => Recorded(Ev(w))
        /\ ~At(w, "markIgnored")

RecInv == LinksStay /\ LedgerFollows /\ NothingLost /\ Remembers

(* An invocation at work holds a published event and does to it what its type asks. *)
LEMMA Holds ==
    ASSUME IInv, NEW w \in Workers, ~At(w, "idle")
    PROVE  /\ Ev(w) \in Events /\ Ev(w) \in emitted
           /\ worker[w].pc \in AtPayment =>
                 Ev(w) \in PaymentEvents /\ Ev(w)[1] \in Payments
           /\ worker[w].pc \in AtRefund =>
                 Ev(w) \in RefundEvents /\ Ev(w) \notin PaymentEvents
<1>1. Knows(worker[w]) /\ emitted \subseteq Events
  BY DEF IInv, TypeOK, WorkersAreReal
<1>2. \A e \in RefundEvents : e \notin PaymentEvents
  BY EventParts, ConstantsAssumption
<1> QED
  BY <1>1, <1>2, EventParts DEF Knows, At, Ev

(* The invariant is kept by an invocation of the webhook ... *)
LEMMA RecWebhook ==
    ASSUME IInv, RecInv, NEW w \in Workers, Effect(w), WorkersAreReal'
    PROVE  RecInv'
<1> PICK e : e = Ev(w)
  OBVIOUS
<1>1. /\ UNCHANGED <<issuer, orderRef, payment, refund, emitted>>
      /\ Alone(w) /\ Writes(w) /\ Grounds(w) /\ ~At(w, "idle")
      /\ worker'[w].pc = "idle" \/ worker'[w].ev = e
  BY DEF Effect, square
<1>2. \A x : Ours(x)' = Ours(x)
  BY <1>1 DEF Ours
<1>3. \A x \in PaymentEvents : Recorded(x) => Recorded(x)'
  <2>1. \A s : paymentStatus(s) # "NONE"
    BY DEF paymentStatus
  <2>2. At(w, "patchParent") => worker[w].set # "NONE"
    BY DEF IInv, WorkersAreReal, Knows, At
  <2>3. \A x \in PaymentEvents : x[1] \in Payments
    BY EventParts
  <2> QED
    BY <1>1, <2>1, <2>2, <2>3 DEF Writes, Recorded
<1>4. LinksStay'
  <2>1. \A i \in Invoices : invoice'[i].order = invoice[i].order
    BY <1>1 DEF Writes
  <2>2. \A p \in Payments : payment[p].order \in Orders => orderRef[payment[p].order] \in Invoices
    BY DEF IInv, EventsAreReal
  <2> QED
    BY <1>1, <2>1, <2>2 DEF RecInv, LinksStay
<1>5. LedgerFollows'
  BY <1>1, Holds DEF RecInv, LedgerFollows, Writes
<1>6. Ours(e) =>
         /\ worker'[w].pc \in {"readPaid", "patchInvoice", "markProcessed", "reply"} => Recorded(e)'
         /\ worker'[w].pc # "markIgnored"
  <2> SUFFICES ASSUME Ours(e) PROVE
         /\ worker'[w].pc \in {"readPaid", "patchInvoice", "markProcessed", "reply"} => Recorded(e)'
         /\ worker'[w].pc # "markIgnored"
    OBVIOUS
  <2>1. e \in PaymentEvents /\ e \in Events /\ worker[w].pc \notin AtRefund /\ e[1] \in Payments
    BY <1>1, Holds, EventParts DEF Ours
  <2>2. \A s : paymentStatus(s) # "NONE"
    BY DEF paymentStatus
  <2>3. worker[w].pc \in {"readPaid", "patchInvoice", "markProcessed", "reply"} => Recorded(e)'
    BY <1>1, <1>3, <2>1 DEF RecInv, Remembers
  <2>4. ~At(w, "markIgnored")
    BY <1>1 DEF RecInv, Remembers
  <2>5. worker'[w].pc \in {"readPaid", "patchInvoice", "markProcessed"} => Recorded(e)'
    BY <1>1, <2>1, <2>2, <2>3 DEF Grounds, Recorded, At, AtRefund
  <2>6. worker'[w].pc = "reply" => Recorded(e)'
    <3>1. CASE At(w, "eventState") /\ ledger'[e] \in {"PROCESSED", "IGNORED"}
      BY <1>1, <1>3, <2>1, <3>1 DEF RecInv, NothingLost, Writes, At
    <3> QED
      BY <1>1, <2>3, <2>4, <3>1 DEF Grounds, At
  <2>7. worker'[w].pc # "markIgnored"
    <3>1. orderRef[payment[e[1]].order] \in Invoices
      BY <2>1 DEF Ours, IInv, EventsAreReal
    <3>2. invoice[orderRef[payment[e[1]].order]].order = payment[e[1]].order
      BY <2>1 DEF Ours, RecInv, LinksStay
    <3> QED
      BY <1>1, <2>1, <3>1, <3>2 DEF Grounds, At, AtRefund
  <2> QED
    BY <2>5, <2>6, <2>7
<1>7. NothingLost'
  <2> SUFFICES ASSUME NEW x \in PaymentEvents, Ours(x)
               PROVE  /\ x \in acked' \/ ledger'[x] = "PROCESSED" => Recorded(x)'
                      /\ ledger'[x] # "IGNORED"
    BY <1>2 DEF NothingLost
  <2>1. x \in Events
    BY DEF Events
  <2>2. x = e => /\ worker[w].pc \in {"markProcessed", "reply"} => Recorded(x)
                 /\ ~At(w, "markIgnored")
    BY <1>1 DEF RecInv, Remembers
  <2>3. /\ x \in acked \/ ledger[x] = "PROCESSED" => Recorded(x)
        /\ ledger[x] # "IGNORED"
    BY DEF RecInv, NothingLost
  <2> QED
    BY <1>1, <1>3, <2>1, <2>2, <2>3 DEF Writes, At
<1>8. Remembers'
  <2> SUFFICES ASSUME NEW v \in Workers, NEW x, x = worker'[v].ev,
                      worker'[v].pc # "idle", Ours(x)
               PROVE  /\ worker'[v].pc \in {"readPaid", "patchInvoice", "markProcessed", "reply"}
                            => Recorded(x)'
                      /\ worker'[v].pc # "markIgnored"
    BY <1>2 DEF Remembers, At, Ev, Ours, Recorded
  <2>1. CASE v = w
    BY <1>1, <1>6, <2>1
  <2>2. CASE v # w
    <3>1. worker'[v] = worker[v] /\ x \in PaymentEvents
      BY <1>1, <2>2 DEF Alone, Ours
    <3> QED
      BY <1>3, <3>1 DEF RecInv, Remembers, At, Ev
  <2> QED
    BY <2>1, <2>2
<1> QED
  BY <1>4, <1>5, <1>7, <1>8 DEF RecInv

(* ... and by every step that writes neither a payment row nor the ledger: no event of
   a payment was published before the payment started. *)
LEMMA RecOthers ==
    ASSUME IInv, RecInv, LinksStay', emitted \subseteq emitted',
           UNCHANGED <<payRow, ledger, worker, acked>>,
           \A e \in emitted : Ours(e)' => Ours(e)
    PROVE  RecInv'
<1>1. LedgerFollows'
  BY DEF RecInv, LedgerFollows
<1>2. NothingLost'
  <2> SUFFICES ASSUME NEW e \in PaymentEvents, Ours(e)'
               PROVE  /\ e \in acked \/ ledger[e] = "PROCESSED" => Recorded(e)
                      /\ ledger[e] # "IGNORED"
    BY DEF NothingLost, Recorded
  <2>1. e \in Events
    BY DEF Events
  <2> QED
    BY <2>1 DEF RecInv, LedgerFollows, NothingLost
<1>3. Remembers'
  <2> SUFFICES ASSUME NEW w \in Workers, ~At(w, "idle"), NEW e, e = Ev(w), Ours(e)'
               PROVE  /\ worker[w].pc \in {"readPaid", "patchInvoice", "markProcessed", "reply"}
                            => Recorded(e)
                      /\ ~At(w, "markIgnored")
    BY DEF Remembers, Recorded, At, Ev, Ours
  <2>1. e \in emitted
    BY Holds
  <2> QED
    BY <2>1 DEF RecInv, Remembers
<1> QED
  BY <1>1, <1>2, <1>3 DEF RecInv

LEMMA RecDeliver ==
    ASSUME IInv, RecInv, NEW w \in Workers, NEW e \in Events, Deliver(w, e)
    PROVE  RecInv'
<1>1. /\ UNCHANGED <<tables, issuer, square, acked, faults>>
      /\ \A v \in Workers : worker'[v].pc # "insert" => worker'[v] = worker[v]
  <2>1. worker \in [Workers -> WorkerRecord]
    BY DEF IInv, TypeOK, WorkerRecord
  <2> QED
    BY <2>1 DEF Deliver, IdleWorker
<1>2. LinksStay' /\ LedgerFollows' /\ NothingLost'
  BY <1>1 DEF RecInv, LinksStay, LedgerFollows, NothingLost, Ours, Recorded, tables, square
<1>3. Remembers'
  <2> SUFFICES ASSUME NEW v \in Workers, worker'[v].pc # "insert",
                      NEW x, x = worker'[v].ev, Ours(x), worker'[v].pc # "idle"
               PROVE  /\ worker'[v].pc \in {"readPaid", "patchInvoice", "markProcessed", "reply"}
                            => Recorded(x)
                      /\ worker'[v].pc # "markIgnored"
    BY <1>1 DEF Remembers, At, Ev, Ours, Recorded, tables, square
  <2> QED
    BY <1>1 DEF RecInv, Remembers, At, Ev
<1> QED
  BY <1>2, <1>3 DEF RecInv

LEMMA RecIssuer ==
    ASSUME IInv, RecInv, OneOrderPerInvoice, NEW c \in Issuers, IssuerStep(c)
    PROVE  RecInv'
<1>1. UNCHANGED <<payRow, ledger, worker, payment, emitted, acked>>
  BY DEF IssuerStep, ReadInvoice, CreateLink, PatchLink, Abandon, tables, square
<1>2. \A e \in emitted : Ours(e)' => Ours(e)
  BY <1>1 DEF Ours
<1>3. /\ \A p \in Payments : payment[p].order \in Orders => orderRef[payment[p].order] \in Invoices
      /\ orderRef \in [Orders -> Invoices \cup {NoInvoice}]
      /\ invoice \in [Invoices -> [status : InvoiceStatus, order : Orders \cup {NoOrder}]]
  BY DEF IInv, EventsAreReal, TypeOK
<1>4. CASE UNCHANGED <<invoice, orderRef>>
  <2>1. LinksStay'
    BY <1>1, <1>4 DEF RecInv, LinksStay
  <2> QED
    BY <1>1, <1>2, <2>1, RecOthers
<1>5. CASE CreateLink(c)
  <2>1. issuer[c].inv \in Invoices
    BY <1>5 DEF CreateLink, IInv, LinksAreReal
  <2>2. PICK o \in Orders : /\ orderRef[o] \in {issuer[c].inv, NoInvoice}
                            /\ orderRef' = [orderRef EXCEPT ![o] = issuer[c].inv]
    BY <1>5 DEF CreateLink, SameKey
  <2>3. \A x \in Orders : orderRef[x] # NoInvoice => orderRef'[x] = orderRef[x]
    BY <1>3, <2>2
  <2>4. invoice' = invoice
    BY <1>5 DEF CreateLink, tables
  <2>5. LinksStay'
    BY <1>1, <1>3, <2>3, <2>4, ConstantsAssumption DEF RecInv, LinksStay
  <2> QED
    BY <1>1, <1>2, <2>5, RecOthers
<1>6. CASE PatchLink(c)
  <2> DEFINE i == issuer[c].inv
             o == issuer[c].order
  <2>1. i \in Invoices /\ o \in Orders /\ orderRef[o] = i
    BY <1>6 DEF PatchLink, IInv, LinksAreReal
  <2>2. /\ \A j \in Invoices : invoice'[j].order = IF j = i THEN o ELSE invoice[j].order
        /\ orderRef' = orderRef
    BY <1>3, <1>6, <2>1 DEF PatchLink, square
  <2>3. LinksStay'
    BY <1>1, <1>3, <2>1, <2>2, ConstantsAssumption DEF RecInv, LinksStay, OneOrderPerInvoice
  <2> QED
    BY <1>1, <1>2, <2>3, RecOthers
<1> QED
  BY <1>4, <1>5, <1>6 DEF IssuerStep, ReadInvoice, Abandon, tables, square

LEMMA RecSquare ==
    ASSUME IInv, RecInv, SquareStep PROVE RecInv'
<1>1. /\ UNCHANGED <<payRow, ledger, worker, orderRef, acked>>
      /\ emitted \subseteq emitted'
  BY DEF SquareStep, OfficeVoids, PaymentStarts, PaymentMoves, RefundMoves, tables, square
<1>2. /\ payment \in [Payments -> [status : {"NEW", "APPROVED", "COMPLETED", "FAILED"},
                                   order : Orders \cup {NoOrder, ForeignOrder}]]
      /\ invoice \in [Invoices -> [status : InvoiceStatus, order : Orders \cup {NoOrder}]]
      /\ \A p \in Payments : payment[p].order \in Orders => orderRef[payment[p].order] \in Invoices
  BY DEF IInv, TypeOK, EventsAreReal
<1>3. ASSUME NEW i \in Invoices, OfficeVoids(i) PROVE RecInv'
  <2>1. /\ payment' = payment
        /\ \A j \in Invoices : invoice'[j].order = invoice[j].order
    BY <1>2, <1>3 DEF OfficeVoids, square
  <2>2. LinksStay'
    BY <1>1, <1>2, <2>1 DEF RecInv, LinksStay
  <2> QED
    BY <1>1, <2>1, <2>2, RecOthers DEF Ours
<1>4. ASSUME NEW p \in Payments, NEW s, PaymentStarts(p, s) PROVE RecInv'
  <2>1. PICK o \in {invoice[i].order : i \in Invoices} \cup {ForeignOrder} :
            /\ o # NoOrder
            /\ payment' = [payment EXCEPT ![p] = [status |-> s, order |-> o]]
    BY <1>4 DEF PaymentStarts
  <2>2. invoice' = invoice /\ payment[p].status = "NEW"
    BY <1>4 DEF PaymentStarts, tables
  <2>3. \A q \in Payments : payment'[q].order = IF q = p THEN o ELSE payment[q].order
    BY <1>2, <2>1
  <2>4. o \in Orders => invoice[orderRef[o]].order = o
    BY <2>1, ConstantsAssumption DEF IInv, LinksAreReal
  <2>5. LinksStay'
    BY <1>1, <2>2, <2>3, <2>4 DEF RecInv, LinksStay
  <2>6. ASSUME NEW e \in emitted, Ours(e)' PROVE Ours(e)
    <3>1. e \in PaymentEvents /\ e = <<e[1], e[2]>> /\ e[1] \in Payments
      BY <2>6, EventParts DEF Ours
    <3>2. e[1] # p
      BY <2>2, <3>1 DEF IInv, EventsAreReal
    <3> QED
      BY <2>3, <2>6, <3>1, <3>2 DEF Ours
  <2> QED
    BY <1>1, <2>5, <2>6, RecOthers
<1>5. ASSUME NEW p \in Payments, NEW s, PaymentMoves(p, s) PROVE RecInv'
  <2>1. /\ invoice' = invoice
        /\ \A q \in Payments : payment'[q].order = payment[q].order
    BY <1>2, <1>5 DEF PaymentMoves, tables
  <2>2. LinksStay'
    BY <1>1, <2>1 DEF RecInv, LinksStay
  <2>3. \A e \in emitted : Ours(e)' => Ours(e)
    BY <2>1, EventParts DEF Ours
  <2> QED
    BY <1>1, <2>2, <2>3, RecOthers
<1>6. ASSUME NEW r \in Refunds, NEW s, RefundMoves(r, s) PROVE RecInv'
  <2>1. UNCHANGED <<invoice, payment>>
    BY <1>6 DEF RefundMoves, tables
  <2>2. LinksStay'
    BY <1>1, <2>1 DEF RecInv, LinksStay
  <2> QED
    BY <1>1, <2>1, <2>2, RecOthers DEF Ours
<1> QED
  BY <1>3, <1>4, <1>5, <1>6 DEF SquareStep

LEMMA RecStep == IInv /\ OneOrderPerInvoice /\ RecInv /\ [Next]_vars /\ IInv' => RecInv'
<1> SUFFICES ASSUME IInv, OneOrderPerInvoice, RecInv, [Next]_vars, IInv' PROVE RecInv'
  OBVIOUS
<1>1. ASSUME NEW w \in Workers, WebhookStep(w) \/ WebhookFault(w) PROVE RecInv'
  BY <1>1, WebhookEffect, RecWebhook DEF IInv
<1>2. CASE UNCHANGED vars
  <2>1. LinksStay'
    BY <1>2 DEF RecInv, LinksStay, vars, tables, square
  <2> QED
    BY <1>2, <2>1, RecOthers DEF vars, tables, square, Ours
<1> QED
  BY <1>1, <1>2, RecDeliver, RecIssuer, RecSquare DEF Next

LEMMA RecInit == Init => RecInv
BY ConstantsAssumption DEF Init, RecInv, LinksStay, LedgerFollows, NothingLost, Remembers, Ours,
   At, Ev, IdleWorker, PaymentEvents

LEMMA RecInvariant == Spec => []RecInv
BY RecInit, RecStep, Invariant, OneLinkPerInvoice, PTL DEF Spec

(* Square is answered 200 only for an event whose payment is on record, and a payment on
   a Coletti link is never dismissed as unrelated: for any number of overlapping
   invocations of both functions, any order of deliveries and any number of faults. *)
THEOREM NothingAcknowledgedIsLost == Spec => []AcknowledgedIsRecorded
<1>1. RecInv => AcknowledgedIsRecorded
  BY DEF RecInv, NothingLost, Ours, Recorded, AcknowledgedIsRecorded
<1> QED
  BY <1>1, RecInvariant, PTL

--------------------------------------------------------------------------------
(* When payment-link requests do not overlap.  A request reads an invoice without a
   link and writes status OPEN two requests later; with a second request in between
   the invoice may have been linked and paid, which is what a run of SquareBilling
   exhibits. *)
OneIssuer == \A c, d \in Issuers : c = d

PaidIsLinked == \A i \in Invoices : invoice[i].status = "PAID" => invoice[i].order # NoOrder

IssuersFindNoLink ==
    \A c \in Issuers : issuer[c].pc # "idle" => invoice[issuer[c].inv].order = NoOrder

LinkInv == PaidIsLinked /\ IssuersFindNoLink

LEMMA LinkWebhook ==
    ASSUME IInv, RecInv, LinkInv, NEW w \in Workers, Effect(w)
    PROVE  LinkInv' /\ \A i \in Invoices : invoice[i].status = "PAID" => invoice'[i].status = "PAID"
<1>1. /\ Writes(w) /\ issuer' = issuer
      /\ \A i \in Invoices : invoice'[i].order = invoice[i].order
  BY DEF Effect, Writes
<1>2. At(w, "patchInvoice") => invoice[worker[w].inv].order # NoOrder
  <2> SUFFICES ASSUME At(w, "patchInvoice") PROVE invoice[worker[w].inv].order # NoOrder
    OBVIOUS
  <2>1. Ev(w)[1] \in Payments /\ PaidOn(Ev(w)[1], worker[w].inv)
    BY Holds DEF At, AtPayment, IInv, WorkersAreReal, Knows, Ev
  <2> QED
    BY <2>1, ConstantsAssumption DEF PaidOn, RecInv, LinksStay
<1>3. PaidIsLinked'
  BY <1>1, <1>2 DEF LinkInv, PaidIsLinked, Writes
<1>4. IssuersFindNoLink'
  BY <1>1 DEF LinkInv, IssuersFindNoLink, IInv, LinksAreReal
<1> QED
  BY <1>1, <1>3, <1>4 DEF LinkInv, Writes

LEMMA LinkIssuer ==
    ASSUME OneIssuer, IInv, LinkInv, NEW c \in Issuers, IssuerStep(c)
    PROVE  LinkInv' /\ \A i \in Invoices : invoice[i].status = "PAID" => invoice'[i].status = "PAID"
<1>1. /\ \A d \in Issuers : d = c
      /\ invoice \in [Invoices -> [status : InvoiceStatus, order : Orders \cup {NoOrder}]]
      /\ issuer \in [Issuers -> [pc : IssuerPC, inv : Invoices \cup {NoInvoice},
                                 order : Orders \cup {NoOrder}]]
  BY DEF OneIssuer, IInv, TypeOK
<1>2. ASSUME NEW i \in Invoices, ReadInvoice(c, i)
      PROVE  LinkInv' /\ invoice' = invoice
  BY <1>1, <1>2 DEF ReadInvoice, LinkInv, PaidIsLinked, IssuersFindNoLink, tables
<1>3. ASSUME CreateLink(c) PROVE LinkInv' /\ invoice' = invoice
  <2>1. PICK o : issuer' = [issuer EXCEPT ![c].pc = "patch", ![c].order = o]
    BY <1>3 DEF CreateLink
  <2>2. invoice' = invoice /\ issuer[c].pc = "create"
    BY <1>3 DEF CreateLink, tables
  <2>3. \A d \in Issuers : issuer'[d].inv = issuer[d].inv
    BY <1>1, <2>1
  <2> QED
    BY <1>1, <2>2, <2>3 DEF LinkInv, PaidIsLinked, IssuersFindNoLink
<1>4. ASSUME PatchLink(c)
      PROVE  LinkInv' /\ \A i \in Invoices : invoice[i].status = "PAID" => invoice'[i].status = "PAID"
  <2>1. issuer[c].inv \in Invoices /\ issuer[c].order \in Orders
    BY <1>4 DEF PatchLink, IInv, LinksAreReal
  <2>2. invoice[issuer[c].inv].status # "PAID"
    BY <1>4, <2>1 DEF PatchLink, LinkInv, PaidIsLinked, IssuersFindNoLink
  <2>3. \A i \in Invoices :
            invoice'[i] = IF i = issuer[c].inv THEN [status |-> "OPEN", order |-> issuer[c].order]
                                               ELSE invoice[i]
    BY <1>1, <1>4 DEF PatchLink
  <2>4. \A d \in Issuers : issuer'[d].pc = "idle"
    BY <1>1, <1>4 DEF PatchLink, IdleIssuer
  <2> QED
    BY <2>1, <2>2, <2>3, <2>4, ConstantsAssumption DEF LinkInv, PaidIsLinked, IssuersFindNoLink
<1>5. ASSUME Abandon(c) PROVE LinkInv' /\ invoice' = invoice
  BY <1>1, <1>5 DEF Abandon, IdleIssuer, LinkInv, PaidIsLinked, IssuersFindNoLink, tables
<1> QED
  BY <1>2, <1>3, <1>4, <1>5 DEF IssuerStep

LEMMA LinkStep ==
    ASSUME OneIssuer, IInv, RecInv, LinkInv, [Next]_vars
    PROVE  LinkInv' /\ \A i \in Invoices : invoice[i].status = "PAID" => invoice'[i].status = "PAID"
<1>1. ASSUME NEW w \in Workers, NEW e \in Events, Deliver(w, e)
      PROVE  UNCHANGED <<invoice, issuer>>
  BY <1>1 DEF Deliver, tables
<1>2. CASE UNCHANGED <<invoice, issuer>>
  BY <1>2 DEF LinkInv, PaidIsLinked, IssuersFindNoLink
<1>3. SquareStep => UNCHANGED <<invoice, issuer>> \/ \E i \in Invoices : OfficeVoids(i)
  BY DEF SquareStep, PaymentStarts, PaymentMoves, RefundMoves, tables
<1>4. ASSUME NEW i \in Invoices, OfficeVoids(i)
      PROVE  LinkInv' /\ \A j \in Invoices : invoice[j].status = "PAID" => invoice'[j].status = "PAID"
  <2>1. invoice \in [Invoices -> [status : InvoiceStatus, order : Orders \cup {NoOrder}]]
    BY DEF IInv, TypeOK
  <2>2. /\ issuer' = issuer
        /\ \A j \in Invoices :
              /\ invoice'[j].order = invoice[j].order
              /\ invoice'[j].status = IF j = i THEN "VOID" ELSE invoice[j].status
        /\ invoice[i].status # "PAID"
    BY <1>4, <2>1 DEF OfficeVoids
  <2> QED
    BY <2>2 DEF LinkInv, PaidIsLinked, IssuersFindNoLink, IInv, LinksAreReal
<1> QED
  BY <1>1, <1>2, <1>3, <1>4, WebhookEffect, LinkWebhook, LinkIssuer DEF Next, vars, tables

LEMMA LinkInvariant == ASSUME OneIssuer PROVE Spec => []LinkInv
<1>1. Init => LinkInv
  BY DEF Init, LinkInv, PaidIsLinked, IssuersFindNoLink, IdleIssuer
<1>2. IInv /\ RecInv /\ LinkInv /\ [Next]_vars => LinkInv'
  BY LinkStep
<1> QED
  BY <1>1, <1>2, Invariant, RecInvariant, PTL DEF Spec

(* If payment-link requests do not overlap, a PAID invoice stays PAID, however many
   webhook invocations overlap, in whatever order events come and whatever fails. *)
THEOREM PaidIsNeverReopened == ASSUME OneIssuer PROVE Spec => PaidStaysPaid
<1>1. IInv /\ RecInv /\ LinkInv /\ [Next]_vars =>
         [\A i \in Invoices : invoice[i].status = "PAID" => invoice'[i].status = "PAID"]_vars
  BY LinkStep
<1> QED
  BY <1>1, Invariant, RecInvariant, LinkInvariant, PTL DEF Spec, PaidStaysPaid

--------------------------------------------------------------------------------
(* No promotion is lost.  Whoever completes a covering set of rows goes on to read the
   total, and finds the set unless a later step has broken it up; so a covered invoice
   always has an invocation on its way, however many overlap. *)

(* Without a failure the requests of the promotion lead to one another. *)
LEMMA PromotionGoesOn ==
    ASSUME IInv, NEW w \in Workers, WebhookStep(w) \/ WebhookFault(w), faults' = 0
    PROVE  /\ faults = 0
           /\ At(w, "upsertPayment") =>
                /\ payRow' = [payRow EXCEPT ![Ev(w)[1]] =
                                [status |-> paymentStatus(Ev(w)[2]), inv |-> worker[w].inv]]
                /\ paymentStatus(Ev(w)[2]) = "SUCCEEDED" => worker'[w].pc = "readPaid"
           /\ At(w, "readPaid") /\ Total[PaidRows(worker[w].inv)] >= Due[worker[w].inv]
                => worker'[w].pc = "patchInvoice"
           /\ At(w, "patchInvoice") => invoice'[worker[w].inv].status = "PAID"
<1>1. /\ faults \in Nat
      /\ worker \in [Workers -> WorkerRecord]
      /\ invoice \in [Invoices -> [status : InvoiceStatus, order : Orders \cup {NoOrder}]]
      /\ Knows(worker[w])
  BY ConstantsAssumption DEF IInv, TypeOK, WorkerRecord, WorkersAreReal
<1>2. ~Throws(w) /\ ~WebhookFault(w)
  BY <1>1 DEF Throws, WebhookFault, Refused, Dies, InsertUnanswered
<1>3. faults' = faults
  BY <1>2 DEF WebhookStep, InsertEvent, EventState, FindInvoiceByOrder, UpsertPayment, ReadPaid,
     PatchInvoice, FindParent, UpsertRefund, ReadRefunds, PatchParent, MarkProcessed,
     MarkIgnored, MarkFailed, Reply, Written, Goes
<1>4. CASE At(w, "upsertPayment")
  <2>1. UpsertPayment(w)
    BY <1>2, <1>4 DEF At, WebhookStep, InsertEvent, EventState, FindInvoiceByOrder, ReadPaid,
       PatchInvoice, FindParent, UpsertRefund, ReadRefunds, PatchParent, MarkProcessed,
       MarkIgnored, MarkFailed, Reply
  <2> QED
    BY <1>1, <1>2, <1>3, <1>4, <2>1 DEF UpsertPayment, Written, Goes, At, WorkerRecord
<1>5. CASE At(w, "readPaid")
  <2>1. ReadPaid(w)
    BY <1>2, <1>5 DEF At, WebhookStep, InsertEvent, EventState, FindInvoiceByOrder, UpsertPayment,
       PatchInvoice, FindParent, UpsertRefund, ReadRefunds, PatchParent, MarkProcessed,
       MarkIgnored, MarkFailed, Reply
  <2> QED
    BY <1>1, <1>3, <1>5, <2>1 DEF ReadPaid, Goes, At, WorkerRecord
<1>6. CASE At(w, "patchInvoice")
  <2>1. PatchInvoice(w)
    BY <1>2, <1>6 DEF At, WebhookStep, InsertEvent, EventState, FindInvoiceByOrder, UpsertPayment,
       ReadPaid, FindParent, UpsertRefund, ReadRefunds, PatchParent, MarkProcessed,
       MarkIgnored, MarkFailed, Reply
  <2>2. worker[w].inv \in Invoices
    BY <1>1, <1>6 DEF At, Knows, PaidOn
  <2> QED
    BY <1>1, <1>3, <1>6, <2>1, <2>2 DEF PatchInvoice, At
<1> QED
  BY <1>3, <1>4, <1>5, <1>6 DEF At

LEMMA RecordedWebhook ==
    ASSUME IInv, RecInv, LinkInv, RecordedIsPaid, NEW w \in Workers,
           WebhookStep(w) \/ WebhookFault(w)
    PROVE  RecordedIsPaid'
<1> SUFFICES ASSUME faults' = 0, NEW i \in Invoices, Due[i] > 0, Total[PaidRows(i)'] >= Due[i]
             PROVE  invoice'[i].status = "PAID" \/ OnItsWay(i)'
  BY DEF RecordedIsPaid
<1>1. /\ Effect(w) /\ Writes(w) /\ Alone(w)
      /\ worker'[w].pc \in {"readPaid", "patchInvoice"} => worker'[w].inv = worker[w].inv
  BY WebhookEffect DEF Effect
<1>2. \A j \in Invoices : invoice[j].status = "PAID" => invoice'[j].status = "PAID"
  BY <1>1, LinkWebhook
<1>3. CASE \E p \in PaidRows(i)' : p \notin PaidRows(i)
  <2>1. PICK p \in Payments : /\ payRow'[p].inv = i /\ payRow'[p].status = "SUCCEEDED"
                              /\ p \notin PaidRows(i)
    BY <1>3 DEF PaidRows
  <2>2. payRow'[p] # payRow[p]
    BY <2>1 DEF PaidRows
  <2>3. CASE At(w, "upsertPayment") /\ p = Ev(w)[1] /\ payRow'[p].status = paymentStatus(Ev(w)[2])
    <3>1. worker'[w].pc = "readPaid"
      BY <2>1, <2>3, PromotionGoesOn
    <3>2. payRow'[p].inv = worker[w].inv
      <4>1. payRow \in [Payments -> [status : PaymentRowStatus, inv : Invoices \cup {NoInvoice}]]
        BY DEF IInv, TypeOK
      <4>2. payRow' = [payRow EXCEPT ![p] = [status |-> paymentStatus(Ev(w)[2]), inv |-> worker[w].inv]]
        BY <2>3, PromotionGoesOn
      <4> QED
        BY <4>1, <4>2
    <3> QED
      BY <1>1, <2>1, <3>1, <3>2 DEF OnItsWay
  <2>4. CASE At(w, "patchParent") /\ payRow'[p].status = worker[w].set
    <3>1. worker[w].set \in {"REFUNDED", "PARTIALLY_REFUNDED"}
      BY <2>4 DEF IInv, WorkersAreReal, Knows, At
    <3> QED
      BY <2>1, <2>4, <3>1
  <2> QED
    BY <1>1, <2>2, <2>3, <2>4 DEF Writes
<1>4. CASE PaidRows(i)' \subseteq PaidRows(i)
  <2>1. Total[PaidRows(i)] >= Due[i]
    <3>1. PaidRows(i) \in DOMAIN Total /\ PaidRows(i)' \in DOMAIN Total
      BY TotalAssumption DEF PaidRows
    <3> QED
      BY <1>4, <3>1, TotalAssumption, ConstantsAssumption
  <2>2. faults = 0
    BY PromotionGoesOn
  <2>3. invoice[i].status = "PAID" \/ OnItsWay(i)
    BY <2>1, <2>2 DEF RecordedIsPaid
  <2>4. ASSUME NEW v \in Workers, worker[v].inv = i, worker[v].pc \in {"readPaid", "patchInvoice"}
        PROVE  invoice'[i].status = "PAID" \/ OnItsWay(i)'
    <3>1. CASE v # w
      BY <1>1, <2>4, <3>1 DEF OnItsWay, Alone
    <3>2. CASE v = w
      BY <1>1, <2>1, <2>4, <3>2, PromotionGoesOn DEF OnItsWay, At
    <3> QED
      BY <3>1, <3>2
  <2> QED
    BY <1>2, <2>3, <2>4 DEF OnItsWay
<1> QED
  BY <1>3, <1>4

LEMMA OthersLeaveRows ==
    \/ \E c \in Issuers : IssuerStep(c)
    \/ SquareStep
    \/ UNCHANGED vars
    => UNCHANGED <<payRow, worker, faults>>
BY DEF IssuerStep, ReadInvoice, CreateLink, PatchLink, Abandon, SquareStep, OfficeVoids,
   PaymentStarts, PaymentMoves, RefundMoves, vars, tables

LEMMA RecordedOthers ==
    ASSUME RecordedIsPaid, UNCHANGED <<payRow, faults>>,
           \A i \in Invoices : invoice[i].status = "PAID" => invoice'[i].status = "PAID",
           \A i \in Invoices : OnItsWay(i) => OnItsWay(i)'
    PROVE  RecordedIsPaid'
<1>1. \A i : PaidRows(i)' = PaidRows(i)
  BY DEF PaidRows
<1> QED
  BY <1>1 DEF RecordedIsPaid

LEMMA RecordedStep ==
    ASSUME OneIssuer, IInv, RecInv, LinkInv, RecordedIsPaid, [Next]_vars
    PROVE  RecordedIsPaid'
<1>1. \A i \in Invoices : invoice[i].status = "PAID" => invoice'[i].status = "PAID"
  BY LinkStep
<1>2. ASSUME NEW w \in Workers, NEW e \in Events, Deliver(w, e) PROVE RecordedIsPaid'
  <2>1. UNCHANGED <<payRow, faults>> /\ worker[w].pc = "idle"
        /\ \A v \in Workers : v # w => worker'[v] = worker[v]
    BY <1>2 DEF Deliver, At, tables, IInv, TypeOK
  <2>2. \A i \in Invoices : OnItsWay(i) => OnItsWay(i)'
    BY <2>1 DEF OnItsWay
  <2> QED
    BY <1>1, <2>1, <2>2, RecordedOthers
<1>3. ASSUME UNCHANGED <<payRow, worker, faults>> PROVE RecordedIsPaid'
  <2>1. \A i \in Invoices : OnItsWay(i) => OnItsWay(i)'
    BY <1>3 DEF OnItsWay
  <2> QED
    BY <1>1, <1>3, <2>1, RecordedOthers
<1> QED
  BY <1>2, <1>3, RecordedWebhook, OthersLeaveRows DEF Next

(* No promotion is lost between webhook invocations, however many overlap and in
   whatever order Square's events are applied: while no request has failed, an invoice
   the recorded payments cover is PAID or about to be. *)
THEOREM CoveredIsPromoted == ASSUME OneIssuer PROVE Spec => []RecordedIsPaid
<1>1. Init => RecordedIsPaid
  <2> SUFFICES ASSUME Init, NEW i \in Invoices, Due[i] > 0, Total[PaidRows(i)] >= Due[i]
               PROVE  FALSE
    BY DEF RecordedIsPaid
  <2>1. PaidRows(i) = {}
    BY DEF Init, PaidRows
  <2>2. Total[{}] = 0 /\ Due[i] \in Nat
    BY TotalAssumption, ConstantsAssumption
  <2> QED
    BY <2>1, <2>2
<1>2. IInv /\ RecInv /\ LinkInv /\ RecordedIsPaid /\ [Next]_vars => RecordedIsPaid'
  BY RecordedStep
<1> QED
  BY <1>1, <1>2, Invariant, RecInvariant, LinkInvariant, PTL DEF Spec

--------------------------------------------------------------------------------
(* Billing keeps the promise of Receivables when payment-link requests do not overlap,
   whatever the webhook does: each step is one of its steps or a stutter. *)

LEMMA MappedStays ==
    ASSUME \A i \in Invoices : invoice'[i].order = invoice[i].order
                               /\ invoice'[i].status = invoice[i].status,
           \A i \in Invoices : CollectedFor(i)' = CollectedFor(i)
    PROVE  UNCHANGED Promise!vars
<1>1. Links' = Links
  BY DEF Links
<1>2. Collected' = Collected
  BY DEF Collected
<1>3. States' = States
  BY DEF States
<1> QED
  BY <1>1, <1>2, <1>3 DEF Promise!vars

(* One invoice changes its status and nothing is collected meanwhile. *)
LEMMA StateMoves ==
    ASSUME NEW i \in Invoices, NEW s \in {"OPEN", "PAID", "VOID"},
           invoice'[i].status = s,
           \A j \in Invoices : j # i => invoice'[j].status = invoice[j].status,
           UNCHANGED square
    PROVE  /\ States' = [States EXCEPT ![i] = s]
           /\ Collected' = Collected
<1>1. States' = [States EXCEPT ![i] = s]
  BY DEF States
<1>2. \A j : CollectedFor(j)' = CollectedFor(j)
  BY DEF CollectedFor, square
<1> QED
  BY <1>1, <1>2 DEF Collected

LEMMA PromiseWebhook ==
    ASSUME IInv, RecInv, LinkInv, NEW w \in Workers, Effect(w)
    PROVE  [Promise!Next]_(Promise!vars)
<1>1. /\ Writes(w) /\ UNCHANGED square
      /\ \A i \in Invoices : invoice'[i].order = invoice[i].order
  BY DEF Effect, Writes
<1>2. \A i : CollectedFor(i)' = CollectedFor(i)
  BY <1>1 DEF CollectedFor, square
<1>3. CASE \A i \in Invoices : invoice'[i].status = invoice[i].status
  BY <1>1, <1>2, <1>3, MappedStays
<1>4. ASSUME NEW i \in Invoices, invoice'[i].status # invoice[i].status
      PROVE  Promise!Next
  <2>1. At(w, "patchInvoice") /\ i = worker[w].inv /\ invoice'[i].status = "PAID"
    BY <1>1, <1>4 DEF Writes
  <2>2. \A j \in Invoices : j # i => invoice'[j].status = invoice[j].status
    BY <1>1, <2>1 DEF Writes
  <2>3. Total[CollectedFor(i)] >= Due[i]
    BY <2>1 DEF At, IInv, WorkersAreReal, Knows
  <2>4. invoice[i].order # NoOrder
    BY <1>1, <2>1, LinkWebhook DEF LinkInv, PaidIsLinked
  <2>5. Links' = Links /\ Links[i] # NoOrder
    BY <1>1, <2>4 DEF Links
  <2>6. States[i] # "PAID" /\ Collected[i] = CollectedFor(i)
    BY <1>4, <2>1 DEF States, Collected
  <2>7. States' = [States EXCEPT ![i] = "PAID"] /\ Collected' = Collected
    BY <1>1, <2>1, <2>2, StateMoves
  <2>8. Promise!Pay(i)
    BY <2>3, <2>5, <2>6, <2>7 DEF Promise!Pay
  <2> QED
    BY <2>8 DEF Promise!Next
<1> QED
  BY <1>3, <1>4

LEMMA PromiseIssuer ==
    ASSUME IInv, LinkInv, NEW c \in Issuers, IssuerStep(c)
    PROVE  [Promise!Next]_(Promise!vars)
<1>1. /\ invoice \in [Invoices -> [status : InvoiceStatus, order : Orders \cup {NoOrder}]]
      /\ orderRef \in [Orders -> Invoices \cup {NoInvoice}]
  BY DEF IInv, TypeOK
<1>2. CASE UNCHANGED <<invoice, square>>
  <2>1. \A i \in Invoices : CollectedFor(i)' = CollectedFor(i)
    BY <1>2 DEF CollectedFor, square
  <2> QED
    BY <1>2, <2>1, MappedStays
<1>3. CASE CreateLink(c)
  <2> DEFINE i == issuer[c].inv
  <2>1. PICK o \in Orders :
          /\ orderRef' = [orderRef EXCEPT ![o] = i]
          /\ orderRef[o] = i \/ orderRef[o] = NoInvoice
    BY <1>3 DEF CreateLink, SameKey
  <2>2. invoice' = invoice /\ payment' = payment
    BY <1>3 DEF CreateLink, tables
  <2> HIDE DEF i
  <2>3. ASSUME NEW p \in Payments, payment[p].order \in Orders
        PROVE  orderRef'[payment[p].order] = orderRef[payment[p].order]
    <3>1. orderRef[payment[p].order] \in Invoices
      BY <2>3 DEF IInv, EventsAreReal
    <3>2. orderRef[payment[p].order] # NoInvoice
      BY <3>1, ConstantsAssumption
    <3> QED
      BY <1>1, <2>1, <2>3, <3>2
  <2>4. \A j \in Invoices : CollectedFor(j)' = CollectedFor(j)
    BY <2>2, <2>3 DEF CollectedFor
  <2> QED
    BY <2>2, <2>4, MappedStays
<1>4. CASE PatchLink(c)
  <2> DEFINE i == issuer[c].inv
             o == issuer[c].order
  <2>1. i \in Invoices /\ o \in Orders /\ orderRef[o] = i
    BY <1>4 DEF PatchLink, IInv, LinksAreReal
  <2>2. invoice[i].order = NoOrder /\ invoice[i].status # "PAID"
    BY <1>4, <2>1 DEF PatchLink, LinkInv, PaidIsLinked, IssuersFindNoLink
  <2>3. invoice' = [invoice EXCEPT ![i] = [status |-> "OPEN", order |-> o]] /\ UNCHANGED square
    BY <1>4 DEF PatchLink
  <2> HIDE DEF i, o
  <2>4. /\ invoice'[i].status = "OPEN" /\ invoice'[i].order = o
        /\ \A j \in Invoices : j # i => invoice'[j] = invoice[j]
    BY <1>1, <2>1, <2>3
  <2>5. \A j \in Invoices : invoice[j].order # o
    BY <2>1, <2>2, ConstantsAssumption DEF IInv, LinksAreReal
  <2>6. Links[i] = NoOrder /\ (\A j \in Invoices : Links[j] # o) /\ States[i] # "PAID"
    BY <2>1, <2>2, <2>5 DEF Links, States
  <2>7. Links' = [Links EXCEPT ![i] = o]
    BY <2>1, <2>4 DEF Links
  <2>8. States' = [States EXCEPT ![i] = "OPEN"] /\ Collected' = Collected
    BY <2>1, <2>3, <2>4, StateMoves
  <2>9. Promise!Link(i, o)
    BY <2>6, <2>7, <2>8 DEF Promise!Link
  <2> QED
    BY <2>1, <2>9 DEF Promise!Next
<1> QED
  BY <1>2, <1>3, <1>4 DEF IssuerStep, ReadInvoice, Abandon, tables

(* A payment that completes is collected on the invoice of its order, which still
   shows that order; a payment of somebody else's business is not collected. *)
LEMMA PromiseCollects ==
    ASSUME IInv, IInv', RecInv',
           NEW p \in Payments, NEW s \in {"APPROVED", "COMPLETED", "FAILED"},
           PaymentStarts(p, s) \/ PaymentMoves(p, s)
    PROVE  [Promise!Next]_(Promise!vars)
<1>1. /\ invoice' = invoice /\ orderRef' = orderRef
      /\ payment[p].status \in {"NEW", "APPROVED"}
  BY DEF PaymentStarts, PaymentMoves, tables
<1>2. payment \in [Payments -> [status : {"NEW", "APPROVED", "COMPLETED", "FAILED"},
                                order : Orders \cup {NoOrder, ForeignOrder}]]
  BY DEF IInv, TypeOK
<1>3. \A q \in Payments : q # p => payment'[q] = payment[q]
  BY <1>2 DEF PaymentStarts, PaymentMoves
<1>4. \A j : p \notin CollectedFor(j)
  BY <1>1 DEF CollectedFor
<1>5. \A q \in Payments : \A j : q # p => (q \in CollectedFor(j)' <=> q \in CollectedFor(j))
  BY <1>1, <1>3 DEF CollectedFor
<1>6. \A j : CollectedFor(j) \subseteq Payments /\ CollectedFor(j)' \subseteq Payments
  BY DEF CollectedFor
<1>7. CASE payment'[p].status = "COMPLETED" /\ payment'[p].order \in Orders
  <2> PICK i : i = orderRef'[payment'[p].order]
    OBVIOUS
  <2>1. i \in Invoices
    BY <1>7 DEF IInv, EventsAreReal
  <2>2. invoice[i].order = payment'[p].order
    BY <1>1, <1>7 DEF RecInv, LinksStay
  <2>3. invoice[i].order # NoOrder
    BY <1>7, <2>2, ConstantsAssumption
  <2>4. \A j : p \in CollectedFor(j)' <=> j = i
    BY <1>7 DEF CollectedFor
  <2>5. /\ CollectedFor(i)' = CollectedFor(i) \cup {p}
        /\ \A j : j # i => CollectedFor(j)' = CollectedFor(j)
    <3>1. \A j : p \notin CollectedFor(j) /\ (p \in CollectedFor(j)' <=> j = i)
      BY <1>4, <2>4
    <3>2. ASSUME NEW j, j # i PROVE CollectedFor(j)' = CollectedFor(j)
      BY <1>5, <1>6, <3>1, <3>2
    <3>3. \A q : q \in CollectedFor(i)' <=> q \in CollectedFor(i) \/ q = p
      BY <1>5, <1>6, <3>1
    <3>4. CollectedFor(i)' = CollectedFor(i) \cup {p}
      BY <3>3
    <3> QED
      BY <3>2, <3>4
  <2>6. Collected' = [Collected EXCEPT ![i] = Collected[i] \cup {p}]
    BY <2>1, <2>5 DEF Collected
  <2>7. Links[i] # NoOrder /\ \A j \in Invoices : p \notin Collected[j]
    BY <1>4, <2>1, <2>3 DEF Links, Collected
  <2>8. Links' = Links /\ States' = States
    BY <1>1 DEF Links, States
  <2>9. Promise!Collect(i, p)
    BY <2>6, <2>7, <2>8 DEF Promise!Collect
  <2> QED
    BY <2>1, <2>9 DEF Promise!Next
<1>8. CASE ~(payment'[p].status = "COMPLETED" /\ payment'[p].order \in Orders)
  <2>1. \A j : p \notin CollectedFor(j)'
    BY <1>8 DEF CollectedFor
  <2>2. \A j : CollectedFor(j)' = CollectedFor(j)
    BY <1>4, <1>5, <1>6, <2>1
  <2> QED
    BY <1>1, <2>2, MappedStays
<1> QED
  BY <1>7, <1>8

LEMMA PromiseSquare ==
    ASSUME IInv, IInv', RecInv', SquareStep
    PROVE  [Promise!Next]_(Promise!vars)
<1>1. ASSUME NEW i \in Invoices, OfficeVoids(i)
      PROVE  [Promise!Next]_(Promise!vars)
  <2>1. invoice \in [Invoices -> [status : InvoiceStatus, order : Orders \cup {NoOrder}]]
    BY DEF IInv, TypeOK
  <2>2. /\ invoice[i].status \in {"DRAFT", "OPEN"} /\ invoice'[i].status = "VOID"
        /\ \A j \in Invoices : /\ invoice'[j].order = invoice[j].order
                               /\ j # i => invoice'[j].status = invoice[j].status
        /\ UNCHANGED square
    BY <1>1, <2>1 DEF OfficeVoids
  <2>3. Links' = Links /\ States[i] = "OPEN"
    BY <2>2 DEF Links, States
  <2>4. States' = [States EXCEPT ![i] = "VOID"] /\ Collected' = Collected
    BY <2>2, StateMoves
  <2>5. Promise!Void(i)
    BY <2>3, <2>4 DEF Promise!Void
  <2> QED
    BY <2>5 DEF Promise!Next
<1>2. ASSUME NEW r \in Refunds, NEW s, RefundMoves(r, s)
      PROVE  [Promise!Next]_(Promise!vars)
  <2>1. UNCHANGED <<invoice, payment, orderRef>>
    BY <1>2 DEF RefundMoves, tables
  <2>2. \A i \in Invoices : CollectedFor(i)' = CollectedFor(i)
    BY <2>1 DEF CollectedFor
  <2> QED
    BY <2>1, <2>2, MappedStays
<1> QED
  BY <1>1, <1>2, PromiseCollects DEF SquareStep

LEMMA PromiseStep ==
    ASSUME IInv, IInv', RecInv, RecInv', LinkInv, [Next]_vars
    PROVE  [Promise!Next]_(Promise!vars)
<1>1. CASE UNCHANGED <<invoice, square>>
  <2>1. \A i \in Invoices : CollectedFor(i)' = CollectedFor(i)
    BY <1>1 DEF CollectedFor, square
  <2> QED
    BY <1>1, <2>1, MappedStays
<1>2. ASSUME NEW w \in Workers, NEW e \in Events, Deliver(w, e)
      PROVE  UNCHANGED <<invoice, square>>
  BY <1>2 DEF Deliver, tables
<1> QED
  BY <1>1, <1>2, WebhookEffect, PromiseWebhook, PromiseIssuer, PromiseSquare DEF Next, vars, tables

LEMMA PromiseInit == Init => Promise!Init
<1> SUFFICES ASSUME Init PROVE Promise!Init
  OBVIOUS
<1>1. \A i \in Invoices : invoice[i].order = NoOrder /\ invoice[i].status = "DRAFT"
  BY DEF Init
<1>2. \A i : CollectedFor(i) = {}
  BY DEF Init, CollectedFor
<1> QED
  BY <1>1, <1>2 DEF Promise!Init, Links, Collected, States

(* If payment-link requests do not overlap, billing implements Receivables, for any
   number of invoices and payments, whatever the webhook's invocations do to each
   other and whatever fails. *)
THEOREM ReceivablesKept == ASSUME OneIssuer PROVE Spec => KeepsReceivables
<1>1. IInv /\ IInv' /\ RecInv /\ RecInv' /\ LinkInv /\ [Next]_vars => [Promise!Next]_(Promise!vars)
  BY PromiseStep
<1> QED
  BY <1>1, PromiseInit, Invariant, RecInvariant, LinkInvariant, PTL
  DEF Spec, KeepsReceivables, Promise!Spec
================================================================================
