SPECIFICATION CaseSpec
CONSTANTS
    s1 = s1
    s2 = s2
    Sessions = {s1, s2}
    Reports = {"findings"}
    Texts <- TheTexts
    Sources <- TheSources
    Statements <- TheStatements
    Tasks <- TheTasks
    Cites <- TheCites
    Raised <- TheRaised
    Class <- TheClass
    ControlRole = {}
    ControlClass = {"MANIFEST"}
    SystemText = {}
    Basis <- TheBasis
    Start <- TheStart
    Verdicts <- TheVerdicts
    Findings = {"CORROBORATED"}
    Overlap = FALSE
    MaxRevision = 2
    MaxFaults = 1
    MaxRestarts = 1
    MaxChanges = 2
    None = None
INVARIANTS CaseTypeOK ShownWasApproved RevisionNamesOneText ReadyMeansSettled
PROPERTIES NothingForgotten KeepsPromise
SYMMETRY Symmetry
CHECK_DEADLOCK FALSE
