SPECIFICATION Spec
CONSTANTS
    s1 = s1
    Sessions = {s1}
    Cases = {one, other}
    one = one
    other = other
    Submissions <- TheSubmissions
    Kind <- TheKind
    Units <- TheUnits
    Docs <- TheDocs
    Lines <- TheLines
    Readable <- TheReadable
    MaxMembers = 2
    MaxBytes = 2
    MaxDepth = 2
    Blank = ""
    MaxCandidates = 2
    MaxSources = 3
    MaxStatements = 2
    MaxFaults = 1
    None = None
INVARIANTS
    TypeOK SourcesAreStored LineageIsWhole CompletedMeansAll PackagesAreInspected StatementsAccounted
SYMMETRY Symmetry
CHECK_DEADLOCK FALSE
