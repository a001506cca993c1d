\* A scanned bundle sent with the intake form, one invocation, no failure.
SPECIFICATION Spec
CONSTANTS
    Uploads = {scan}
    Doc <- MixedDoc
    Files = {"scan"}
    Early = {scan}
    Processors = {p1}
    MaxFaults = 0
    first = first  second = second  third = third  scan = scan  p1 = p1  p2 = p2
INVARIANT BundlesAreRed
CHECK_DEADLOCK FALSE
