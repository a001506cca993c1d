\* Requests overlap; no e-mail.  A booking with two times, linked again and again, two
\* payments that cover the fee only together, a second assessment.  The pipeline may come to rest.
SPECIFICATION Spec
CONSTANTS
    Consultations = {c1}
    Bookings = {b1}
    Times = {t1, t2}
    Payments = {p1, p2}
    Assessments = {a1, a2}
    Senders = {}
    c1 = c1  b1 = b1  b2 = b2  t1 = t1  t2 = t2  p1 = p1  p2 = p2
    a1 = a1  a2 = a2  s1 = s1  s2 = s2
    Enough <- BothPayments
    Overlap = TRUE
    MaxFaults = 0
    NoBooking = NoBooking
    NoTime = NoTime
    NoAssessment = NoAssessment
    NoConsultation = NoConsultation
INVARIANTS TypeOK AssignmentFollowsDecision OneStandingAssessment WorkIsPaidFor ClearedIsPaid
PROPERTY WorkflowFollowsBooking
SYMMETRY Symmetry
CHECK_DEADLOCK FALSE
