\* One confirmation after another, two times of one booking, two faults.  Payments
\* and assessments, which the e-mail does not look at, are left out.
SPECIFICATION Spec
CONSTANTS
    Consultations = {c1}
    Bookings = {b1}
    Times = {t1, t2}
    Payments = {}
    Assessments = {}
    Senders = {s1}
    c1 = c1  b1 = b1  b2 = b2  t1 = t1  t2 = t2  p1 = p1  p2 = p2
    a1 = a1  a2 = a2  s1 = s1  s2 = s2
    Enough <- EitherPayment
    Overlap = FALSE
    MaxFaults = 2
    NoBooking = NoBooking
    NoTime = NoTime
    NoAssessment = NoAssessment
    NoConsultation = NoConsultation
INVARIANT SentIsDelivered
CHECK_DEADLOCK FALSE
