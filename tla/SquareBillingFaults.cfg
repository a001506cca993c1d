\* Two overlapping webhook invocations, one payment and one half refund, one
\* fault, deliveries in any order, link requests that stop half-way.  The system may come to rest.
SPECIFICATION Spec
CONSTANTS
    Invoices = {i1}
    Orders = {o1, o2}
    Payments = {p1}
    Refunds = {r1}
    Workers = {w1, w2}
    Issuers = {c1}
    p1 = p1  p2 = p2  r1 = r1  r2 = r2  i1 = i1
    o1 = o1  o2 = o2  w1 = w1  w2 = w2  c1 = c1  c2 = c2
    PaymentOf <- RefundsOfFirst
    Due <- DueTwo
    Total <- WholeTotal
    MaxFaults = 1
    InOrder = FALSE
    NoInvoice = NoInvoice
    NoOrder = NoOrder
    NoEvent = NoEvent
    ForeignOrder = ForeignOrder
INVARIANTS TypeOK PaidIsCovered RowsAreReal AcknowledgedIsRecorded OneOrderPerInvoice RecordedIsPaid
SYMMETRY Symmetry
CHECK_DEADLOCK FALSE
