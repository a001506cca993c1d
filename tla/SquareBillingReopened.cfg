\* Two overlapping link requests, no fault.
SPECIFICATION FairSpec
CONSTANTS
    Invoices = {i1}
    Orders = {o1}
    Payments = {p1}
    Refunds = {}
    Workers = {w1}
    Issuers = {c1, c2}
    p1 = p1  p2 = p2  r1 = r1  r2 = r2  i1 = i1
    o1 = o1  o2 = o2  w1 = w1  w2 = w2  c1 = c1  c2 = c2
    PaymentOf <- RefundsOfFirst
    Due <- DueTwo
    Total <- WholeTotal
    MaxFaults = 0
    InOrder = TRUE
    NoInvoice = NoInvoice
    NoOrder = NoOrder
    NoEvent = NoEvent
    ForeignOrder = ForeignOrder
PROPERTY PaidStaysPaid
CHECK_DEADLOCK FALSE
