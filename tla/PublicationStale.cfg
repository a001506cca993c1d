SPECIFICATION CaseSpec
CONSTANTS
    s1 = s1
    s2 = s2
    Sessions = {s1, s2}
    Reports = {"findings"}
    Texts <- TheTexts
    Sources <- TheSources
    Statements <- TheStatements
    Tasks <- TheTasks
    Cites <- TheCites
    Raised <- TheRaised
    Class <- TheClass
    ControlRole = {}
    ControlClass = {"MANIFEST"}
    SystemText = {}
    Basis <- TheBasis
    Start <- TheStart
    Verdicts <- TheVerdicts
    Findings = {"CORROBORATED"}
    Overlap = TRUE
    MaxRevision = 2
    MaxFaults = 0
    MaxRestarts = 0
    MaxChanges = 1
    None = None
PROPERTY WithdrawnStaysHidden
SYMMETRY Symmetry
CHECK_DEADLOCK FALSE
