\* Three copies of a photograph, two of them sent with the intake form, and a scanned
\* bundle sent with it, two overlapping invocations, one failure.  The system may come to rest.
SPECIFICATION Spec
CONSTANTS
    Uploads = {first, second, third, scan}
    Doc <- MixedDoc
    Files = {"photo", "scan"}
    Early = {second, third, scan}
    Processors = {p1, p2}
    MaxFaults = 1
    first = first  second = second  third = third  scan = scan  p1 = p1  p2 = p2
INVARIANTS TypeOK RegistrationIsTrue DuplicatesAreNoticed FilesSurvive
PROPERTIES BundlesStayRed ClosedStaysClosed
SYMMETRY Symmetry
CHECK_DEADLOCK FALSE
