----------------------------- MODULE CaseAnalysis -----------------------------
(***************************************************************************)
(* What the Python application derives from a case file of the core (the   *)
(* manifest): the analysis tables, the publication gate and the contents   *)
(* of the three reports.  A statement is an identifier; what it says, the  *)
(* labels and the wording of the rows are left out.                        *)
(***************************************************************************)
EXTENDS Naturals, Sequences, FiniteSets, FiniteSetsExt

CONSTANTS
    Sources, Statements, Tasks,
    Cites,         \* the sources a proposition names
    Raised,        \* the sources an escalation is about
    Class,         \* the classification of a source
    ControlRole,   \* sources with a control role or the file name of a manifest
    ControlClass,  \* classifications of control records
    SystemText,    \* propositions whose text is a path of metadata
    Basis          \* what a source names as its corroboration

ASSUME CaseAssumption ==
    /\ IsFiniteSet(Sources) /\ IsFiniteSet(Statements) /\ IsFiniteSet(Tasks)
    /\ Cites \in [Statements -> SUBSET Sources]
    /\ Raised \in [Tasks -> SUBSET Sources]
    /\ ControlRole \subseteq Sources /\ SystemText \subseteq Statements
    /\ Basis \in [Sources -> {"given", "blank", "absent"}]

TriggerStates == {"DISPUTED", "CONTRADICTED", "QUARANTINED"}
States == TriggerStates \cup {"INGESTED", "CORROBORATED", "UNCLASSIFIED"}

\* The marks of resolution_rules a reviewer's text can carry, in their order.
Marks == {"unresolved", "verified", "client"}

Pairs == {S \in SUBSET Statements : Cardinality(S) = 2}

(***************************************************************************)
(* The case file.  A contradiction is the pair of propositions it names, a *)
(* reconciliation the contradiction it names and the marks of its text;    *)
(* both are kept in the order they were recorded in.                       *)
(***************************************************************************)
Manifest == [sources : SUBSET Sources, state : [Sources -> States],
             propositions : SUBSET Statements, contradictions : Seq(Pairs),
             reconciliations : Seq([of : Nat \ {0}, marks : SUBSET Marks]),
             open : SUBSET Tasks]

-----------------------------------------------------------------------------
(* analysis.py: what counts. *)

IsControl(s) == s \in ControlRole \/ Class[s] \in ControlClass
SubstantiveSources(m) == {s \in m.sources : ~IsControl(s)}

Supports(m, p) == Cites[p] \cap SubstantiveSources(m)
SubstantivePropositions(m) == {p \in m.propositions \ SystemText : Supports(m, p) # {}}

\* The contradictions between the two propositions, recorded in either order.
Duplicates(m, pair) == {n \in 1 .. Len(m.contradictions) : m.contradictions[n] = pair}
ContradictionGroups(m) ==
    {pair \in SUBSET SubstantivePropositions(m) : Duplicates(m, pair) # {}}

\* The reconciliations of a group; the last one counts.
ReconciliationsOf(m, pair) ==
    {n \in 1 .. Len(m.reconciliations) : m.reconciliations[n].of \in Duplicates(m, pair)}

\* Mutant: the first reconciliation counts.
FirstReview(m, pair) == m.reconciliations[Min(ReconciliationsOf(m, pair))].marks
Review(m, pair) == m.reconciliations[Max(ReconciliationsOf(m, pair))].marks

\* The first rule with a mark in the text decides, whatever else it says.
ResolutionFor(marks) ==
    IF "unresolved" \in marks THEN "OPEN_AFTER_REVIEW"
    ELSE IF "verified" \in marks THEN "CORROBORATED_RESOLUTION"
    ELSE IF "client" \in marks THEN "EXPLAINED"
    ELSE "REVIEWER_RESOLVED"

ResolutionState(m, pair) ==
    IF ReconciliationsOf(m, pair) = {} THEN "OPEN" ELSE ResolutionFor(Review(m, pair))
PublicationReady == {"CORROBORATED_RESOLUTION"}

ReviewStatus(m, p) ==
    LET ids == Supports(m, p) IN
    IF \E s \in ids : m.state[s] \in TriggerStates THEN "Requires review"
    ELSE IF \A s \in ids : m.state[s] = "CORROBORATED"
      THEN IF \A s \in ids : Basis[s] = "given" THEN "Corroborated" ELSE "No basis"
    ELSE "Working"

\* Whom a finding that is not settled is referred to.
Verifiers(ids, resolution) ==
    IF resolution \in PublicationReady THEN {} ELSE {Class[s] : s \in ids}

-----------------------------------------------------------------------------
(* analysis.py: the tables. *)

OpenTasks(m) == {t \in m.open : Raised[t] \cap SubstantiveSources(m) # {}}

Summary(m) == <<Cardinality(SubstantiveSources(m)), Cardinality(SubstantivePropositions(m)),
                Cardinality(ContradictionGroups(m)), Cardinality(OpenTasks(m))>>

StateCounts(m) ==
    [st \in States |-> Cardinality({s \in SubstantiveSources(m) : m.state[s] = st})]

RecordsReconstruction(m) ==
    {[statement |-> p, sources |-> Supports(m, p), status |-> ReviewStatus(m, p)]
        : p \in SubstantivePropositions(m)}

OperationsReconstruction(m) ==
    {[source |-> s, state |-> m.state[s], basis |-> Basis[s] = "given",
      followUp |-> {t \in OpenTasks(m) : s \in Raised[t]}]
        : s \in SubstantiveSources(m)}

CrossRecordComparison(m) ==
    {[pair |-> pair, ids |-> Duplicates(m, pair),
      reviewed |-> ReconciliationsOf(m, pair) # {},
      resolution |-> ResolutionState(m, pair),
      verifiers |-> Verifiers(UNION {Supports(m, p) : p \in pair}, ResolutionState(m, pair))]
        : pair \in ContradictionGroups(m)}

Inconsistencies(m) ==
    {[subject |-> pair, reviewed |-> ReconciliationsOf(m, pair) # {},
      resolution |-> ResolutionState(m, pair),
      verifiers |-> Verifiers(UNION {Supports(m, p) : p \in pair}, ResolutionState(m, pair))]
        : pair \in ContradictionGroups(m)}
Questions(m) ==
    {[subject |-> {t}, reviewed |-> FALSE, resolution |-> "OPEN",
      verifiers |-> Verifiers(Raised[t] \cap SubstantiveSources(m), "OPEN")]
        : t \in OpenTasks(m)}
AnalyticalIssues(m) == Inconsistencies(m) \cup Questions(m)

-----------------------------------------------------------------------------
(* reporting.py: the gate and the reports. *)

VerificationRows(m) ==
    {i \in AnalyticalIssues(m) : i.resolution \notin PublicationReady /\ i.verifiers # {}}

\* The gate knows control records by their role, not by their classification,
\* and takes a blank basis for one.
CorroborationBlockers(m) ==
    {s \in Sources \ ControlRole : m.state[s] = "CORROBORATED" /\ Basis[s] = "absent"}

Unresolved(m) == {i \in AnalyticalIssues(m) : i.resolution \notin PublicationReady}
Gate(m) == IF Unresolved(m) = {} /\ CorroborationBlockers(m) = {}
             THEN "READY FOR FINAL HUMAN APPROVAL" ELSE "REVIEW REQUIRED"

RecordsReport(m) ==
    [summary |-> Summary(m), counts |-> StateCounts(m), records |-> RecordsReconstruction(m),
     issues |-> AnalyticalIssues(m), referrals |-> VerificationRows(m), gate |-> Gate(m)]
OperationsReport(m) ==
    [operations |-> OperationsReconstruction(m), comparison |-> CrossRecordComparison(m),
     issues |-> AnalyticalIssues(m), referrals |-> VerificationRows(m), gate |-> Gate(m)]
FindingsReport(m) ==
    [summary |-> Summary(m), observations |-> RecordsReconstruction(m),
     comparisons |-> CrossRecordComparison(m), findings |-> AnalyticalIssues(m),
     referrals |-> VerificationRows(m), gate |-> Gate(m)]

ReportBundle(m) == [records |-> RecordsReport(m), operations |-> OperationsReport(m),
                    findings |-> FindingsReport(m)]
=============================================================================
