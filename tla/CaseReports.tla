----------------------------- MODULE CaseReports -----------------------------
(***************************************************************************)
(* A case under review: its file in the core, which staff and the core     *)
(* change, and the publication of the reports that are generated from it   *)
(* at every run of a page.  The file is the one of the demo's core; the    *)
(* core of production is another program, taken to keep a file likewise.   *)
(***************************************************************************)
EXTENDS CaseAnalysis, ReportPublication

CONSTANTS
    Start,              \* the case file at first
    Verdicts,           \* bound: what reviews say
    Findings,           \* bound: how the core classifies sources
    MaxChanges          \* bound: changes of the case

ASSUME CaseReportsAssumption ==
    /\ Start \in Manifest /\ Start.reconciliations = <<>>
    /\ \A marks \in SUBSET Marks : marks # None
    /\ Reports \subseteq {"records", "operations", "findings"}
    /\ Verdicts \subseteq SUBSET Marks /\ Findings \subseteq States
    /\ MaxChanges \in Nat

VARIABLES
    manifest,
    verdict,   \* the last review of each pair of propositions, None before it
    changes
caseVars == <<manifest, verdict, changes>>

Yields(m) == [r \in Reports |-> ReportBundle(m)[r]]

CaseTypeOK ==
    /\ TypeOK
    /\ manifest \in Manifest
    /\ verdict \in [Pairs -> (SUBSET Marks) \cup {None}]
    /\ changes \in 0 .. MaxChanges

CaseInit ==
    /\ manifest = Start
    /\ verdict = [pair \in Pairs |-> None]
    /\ changes = 0
    /\ current = Yields(Start)
    /\ Init

-----------------------------------------------------------------------------
(* The case file changes, and with it the reports it yields. *)

Turns(m) ==
    /\ changes < MaxChanges /\ changes' = changes + 1
    /\ manifest' = m
    /\ current' = Yields(m)

\* Nothing else of the application takes part.
Becomes(m) ==
    /\ Turns(m)
    /\ UNCHANGED <<backend, key, file, page, ghosts, counters>>

\* core.add_proposition.  This and the next two are forms of a page, and their
\* run is one step.
AddProposition(p) ==
    /\ Quiet
    /\ p \notin manifest.propositions
    /\ Cites[p] # {} /\ Cites[p] \subseteq manifest.sources
    /\ Becomes([manifest EXCEPT !.propositions = @ \cup {p}])
    /\ UNCHANGED verdict

\* The cross-record review form; the same pair may be recorded again.
RecordContradiction(pair) ==
    /\ Quiet
    /\ pair \subseteq manifest.propositions
    /\ Becomes([manifest EXCEPT !.contradictions = Append(@, pair)])
    /\ UNCHANGED verdict

RecordReconciliation(n, marks) ==
    /\ Quiet
    /\ n \in 1 .. Len(manifest.contradictions)
    /\ Becomes([manifest EXCEPT !.reconciliations = Append(@, [of |-> n, marks |-> marks])])
    /\ verdict' = [verdict EXCEPT ![manifest.contradictions[n]] = marks]

\* The core classifies a source, opens or closes an escalation.
Classify(s, st) ==
    /\ manifest.state[s] # st
    /\ Becomes([manifest EXCEPT !.state[s] = st])
    /\ UNCHANGED verdict
Escalate(t) ==
    /\ Becomes([manifest EXCEPT !.open = IF t \in @ THEN @ \ {t} ELSE @ \cup {t}])
    /\ UNCHANGED verdict

\* Load and clear: the demo's core starts over.
Empty == [manifest EXCEPT !.sources = {}, !.propositions = {}, !.contradictions = <<>>,
                          !.reconciliations = <<>>, !.open = {},
                          !.state = [s \in Sources |-> "UNCLASSIFIED"]]
ReplaceDemoData(s, m) ==
    /\ EmptyState(s)
    /\ Turns(m)
    /\ verdict' = [pair \in Pairs |-> None]

CaseStep ==
    \/ \E p \in Statements : AddProposition(p)
    \/ \E pair \in Pairs : RecordContradiction(pair)
    \/ \E n \in 1 .. MaxChanges, marks \in Verdicts : RecordReconciliation(n, marks)
    \/ \E s \in Sources, st \in Findings : Classify(s, st)
    \/ \E t \in Tasks : Escalate(t)
    \/ \E s \in Sessions, m \in {Start, Empty} : ReplaceDemoData(s, m)

CaseNext ==
    \/ CaseStep
    \/ \E s \in Sessions : (PageStep(s) \/ NewSession(s)) /\ UNCHANGED caseVars
    \/ KeyReplaced /\ UNCHANGED caseVars

CaseSpec == CaseInit /\ [][CaseNext]_<<vars, caseVars>>

-----------------------------------------------------------------------------
(* Properties. *)

\* A report whose gate stands at "ready" was generated from a case in which every
\* contradiction of two substantive propositions, and every repetition of it, has
\* been reviewed, and the last review of the pair, whichever of its records it
\* names, speaks of verification and does not leave it unresolved.
ReadyMeansSettled ==
    Gate(manifest) = "READY FOR FINAL HUMAN APPROVAL" =>
        \A n \in 1 .. Len(manifest.contradictions) :
            LET pair == manifest.contradictions[n] IN
            pair \subseteq SubstantivePropositions(manifest) =>
                /\ verdict[pair] # None
                /\ "verified" \in verdict[pair]
                /\ "unresolved" \notin verdict[pair]
=============================================================================
