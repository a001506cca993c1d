-------------------------- MODULE CaseReportsProofs --------------------------
(***************************************************************************)
(* Proofs about CaseReports: what the gate's "ready" rests on, and that    *)
(* the case and its reports together are an instance of ReportPublication, *)
(* whose theorems therefore hold of them.                                  *)
(***************************************************************************)
EXTENDS CaseReports, ReportPublicationProofs, FiniteSetTheorems, WellFoundedInduction

-----------------------------------------------------------------------------
(* The inductive invariant: every reconciliation names a contradiction of  *)
(* the file, and of a reviewed pair `verdict` has the last review.         *)

Reconciliation == [of : Nat \ {0}, marks : SUBSET Marks]

Reviews(m, v) ==
    /\ \A i \in 1 .. Len(m.reconciliations) :
          m.reconciliations[i].of \in 1 .. Len(m.contradictions)
    /\ \A pair \in Pairs : ReconciliationsOf(m, pair) # {} => v[pair] = Review(m, pair)

CaseInv ==
    /\ manifest \in Manifest
    /\ verdict \in [Pairs -> (SUBSET Marks) \cup {None}]
    /\ changes \in 0 .. MaxChanges
    /\ Reviews(manifest, verdict)

-----------------------------------------------------------------------------
(* Helpers. *)

\* A set of numbers up to N has a greatest.
LEMMA MaxIs ==
    ASSUME NEW N \in Nat, NEW S \in SUBSET (1 .. N), S # {}
    PROVE  Max(S) \in S /\ \A n \in S : Max(S) >= n
<1> DEFINE From(n) == n .. N
           T == {From(n) : n \in S}
<1>1. T \subseteq FiniteSubsetsOf(Nat)
  BY FS_Interval DEF FiniteSubsetsOf
<1>2. PICK x \in T : \A y \in T : ~(<<y, x>> \in StrictSubsetOrdering(Nat))
  <2>1. IsWellFoundedOn(StrictSubsetOrdering(Nat), FiniteSubsetsOf(Nat))
    BY FS_StrictSubsetOrderingWellFounded
  <2>2. T # {}
    OBVIOUS
  <2> HIDE DEF T
  <2> QED
    BY <1>1, <2>1, <2>2, WFMin
<1>3. PICK m \in S : x = From(m)
  BY <1>2
<1>4. ASSUME NEW n \in S, m < n
      PROVE  FALSE
  <2>1. From(n) \subseteq From(m) /\ From(n) # From(m)
    <3>1. m \in From(m) /\ m \notin From(n)
      BY <1>4
    <3> QED
      BY <1>4, <3>1
  <2>2. <<From(n), From(m)>> \in StrictSubsetOrdering(Nat)
    BY <2>1 DEF StrictSubsetOrdering
  <2> QED
    BY <1>2, <1>3, <2>2
<1>5. \A n \in S : m >= n
  BY <1>4
<1> QED
  BY <1>5 DEF Max

\* A greatest element is the greatest.
LEMMA MaxOnly ==
    ASSUME NEW S \in SUBSET Nat, NEW m \in S, \A n \in S : m >= n
    PROVE  Max(S) = m
<1>1. \E x \in S : \A n \in S : x >= n
  OBVIOUS
<1>2. Max(S) \in S /\ \A n \in S : Max(S) >= n
  BY <1>1 DEF Max
<1>3. Max(S) \in Nat /\ m \in Nat /\ Max(S) >= m /\ m >= Max(S)
  BY <1>2
<1> QED
  BY <1>3

\* What appending does.
LEMMA AppendIs ==
    ASSUME NEW T, NEW s \in Seq(T), NEW e \in T
    PROVE  /\ Len(Append(s, e)) = Len(s) + 1 /\ Append(s, e)[Len(s) + 1] = e
           /\ \A n \in 1 .. Len(s) : Append(s, e)[n] = s[n]
           /\ Append(s, e) \in Seq(T)
OBVIOUS

\* The elements of a sequence.
LEMMA ElementIs ==
    ASSUME NEW T, NEW s \in Seq(T), NEW n \in 1 .. Len(s)
    PROVE  s[n] \in T
OBVIOUS

\* The parts of a case file.
LEMMA FileHas ==
    ASSUME NEW m \in Manifest
    PROVE  /\ m.contradictions \in Seq(Pairs) /\ m.reconciliations \in Seq(Reconciliation)
           /\ Len(m.contradictions) \in Nat /\ Len(m.reconciliations) \in Nat
BY DEF Manifest, Reconciliation

\* Without reconciliations there is nothing to agree with.
LEMMA NoReviews ==
    ASSUME NEW m \in Manifest, m.reconciliations = <<>>, NEW v
    PROVE  Reviews(m, v)
<1>1. Len(m.reconciliations) = 0
  OBVIOUS
<1> QED
  BY <1>1 DEF Reviews, ReconciliationsOf

\* What a review depends on.
LEMMA SameReviews ==
    ASSUME NEW m, NEW k, NEW v, Reviews(m, v),
           k.contradictions = m.contradictions, k.reconciliations = m.reconciliations
    PROVE  Reviews(k, v)
<1>1. \A pair \in Pairs : Duplicates(k, pair) = Duplicates(m, pair)
  BY DEF Duplicates
<1>2. \A pair \in Pairs : ReconciliationsOf(k, pair) = ReconciliationsOf(m, pair)
  BY <1>1 DEF ReconciliationsOf
<1> QED
  BY <1>2 DEF Reviews, Review

-----------------------------------------------------------------------------
(* The changes of the case file. *)

Recorded(m, pair) == [m EXCEPT !.contradictions = Append(@, pair)]
Reconciled(m, n, marks) ==
    [m EXCEPT !.reconciliations = Append(@, [of |-> n, marks |-> marks])]

\* A new contradiction has not been reviewed yet, and the reviews of the same
\* pair stay what they were.
LEMMA RecordedReviews ==
    ASSUME NEW m \in Manifest, NEW pair \in Pairs, NEW v, Reviews(m, v)
    PROVE  Recorded(m, pair) \in Manifest /\ Reviews(Recorded(m, pair), v)
<1> DEFINE k == Recorded(m, pair)
<1>1. /\ k \in Manifest /\ k.reconciliations = m.reconciliations
      /\ k.contradictions = Append(m.contradictions, pair)
  <2>1. Append(m.contradictions, pair) \in Seq(Pairs)
    BY FileHas, AppendIs
  <2> QED
    BY <2>1 DEF Recorded, Manifest
<1> HIDE DEF k
<1>2. /\ Len(k.contradictions) = Len(m.contradictions) + 1
      /\ \A n \in 1 .. Len(m.contradictions) : k.contradictions[n] = m.contradictions[n]
  BY <1>1, FileHas, AppendIs
<1>3. ASSUME NEW i \in 1 .. Len(m.reconciliations)
      PROVE  /\ m.reconciliations[i].of \in 1 .. Len(m.contradictions)
             /\ m.reconciliations[i].of \in 1 .. Len(k.contradictions)
             /\ \A p \in Pairs : m.reconciliations[i].of \in Duplicates(k, p)
                                   <=> m.reconciliations[i].of \in Duplicates(m, p)
  <2>1. m.reconciliations[i].of \in 1 .. Len(m.contradictions)
    BY <1>3 DEF Reviews
  <2>2. m.reconciliations[i].of \in 1 .. Len(k.contradictions)
    BY <1>2, <2>1, FileHas
  <2> QED
    BY <1>2, <2>1, <2>2 DEF Duplicates
<1>4. \A p \in Pairs : ReconciliationsOf(k, p) = ReconciliationsOf(m, p)
  BY <1>1, <1>3 DEF ReconciliationsOf
<1>5. Reviews(k, v)
  BY <1>1, <1>3, <1>4 DEF Reviews, Review
<1> QED
  BY <1>1, <1>5 DEF k

\* A reconciliation is the last review of its pair, and of no other.
LEMMA ReconciledReviews ==
    ASSUME NEW m \in Manifest, NEW n \in 1 .. Len(m.contradictions), NEW marks \in SUBSET Marks,
           NEW v \in [Pairs -> (SUBSET Marks) \cup {None}], Reviews(m, v)
    PROVE  /\ Reconciled(m, n, marks) \in Manifest
           /\ Reviews(Reconciled(m, n, marks), [v EXCEPT ![m.contradictions[n]] = marks])
<1> DEFINE k == Reconciled(m, n, marks)
           u == [v EXCEPT ![m.contradictions[n]] = marks]
           l == Len(m.reconciliations) + 1
<1>1. n \in Nat \ {0} /\ m.contradictions[n] \in Pairs
  BY FileHas
<1>2. /\ k \in Manifest /\ k.contradictions = m.contradictions
      /\ k.reconciliations = Append(m.reconciliations, [of |-> n, marks |-> marks])
  <2>1. [of |-> n, marks |-> marks] \in Reconciliation
    BY <1>1 DEF Reconciliation
  <2>2. Append(m.reconciliations, [of |-> n, marks |-> marks]) \in Seq(Reconciliation)
    BY <2>1, FileHas, AppendIs
  <2> QED
    BY <2>2 DEF Reconciled, Manifest, Reconciliation
<1> HIDE DEF k
<1>3. /\ Len(k.reconciliations) = l /\ l \in Nat
      /\ k.reconciliations[l] = [of |-> n, marks |-> marks]
      /\ \A i \in 1 .. Len(m.reconciliations) : k.reconciliations[i] = m.reconciliations[i]
  <2>1. [of |-> n, marks |-> marks] \in Reconciliation
    BY <1>1 DEF Reconciliation
  <2> QED
    BY <1>2, <2>1, FileHas, AppendIs
<1>4. 1 .. l = (1 .. Len(m.reconciliations)) \cup {l} /\ l \notin 1 .. Len(m.reconciliations)
  BY FileHas
<1> HIDE DEF l
<1>5. \A i \in 1 .. Len(k.reconciliations) :
          k.reconciliations[i].of \in 1 .. Len(k.contradictions)
  BY <1>2, <1>3, <1>4 DEF Reviews
<1>6. \A p \in Pairs : Duplicates(k, p) = Duplicates(m, p)
  BY <1>2 DEF Duplicates
<1>7. ASSUME NEW p \in Pairs, ReconciliationsOf(k, p) # {}
      PROVE  u[p] = Review(k, p)
  <2>1. CASE p = m.contradictions[n]
    <3>1. l \in ReconciliationsOf(k, p)
      <4>1. n \in Duplicates(k, p)
        BY <1>6, <2>1 DEF Duplicates
      <4> QED
        BY <1>3, <1>4, <4>1 DEF ReconciliationsOf
    <3>2. ReconciliationsOf(k, p) \subseteq 1 .. l
      BY <1>3 DEF ReconciliationsOf
    <3>3. Max(ReconciliationsOf(k, p)) = l
      <4>1. /\ ReconciliationsOf(k, p) \in SUBSET Nat
            /\ \A i \in ReconciliationsOf(k, p) : l >= i
        BY <1>3, <3>2
      <4> QED
        BY <3>1, <4>1, MaxOnly
    <3> QED
      BY <1>1, <1>3, <2>1, <3>3 DEF Review
  <2>2. CASE p # m.contradictions[n]
    <3>1. n \notin Duplicates(k, p)
      BY <1>6, <2>2 DEF Duplicates
    <3>2. ReconciliationsOf(k, p) = ReconciliationsOf(m, p)
      BY <1>3, <1>4, <1>6, <3>1 DEF ReconciliationsOf
    <3>3. Max(ReconciliationsOf(m, p)) \in 1 .. Len(m.reconciliations)
      <4>1. ReconciliationsOf(m, p) \in SUBSET (1 .. Len(m.reconciliations))
        BY DEF ReconciliationsOf
      <4> QED
        BY <1>7, <3>2, <4>1, MaxIs, FileHas
    <3>4. Review(k, p) = Review(m, p)
      BY <1>3, <3>2, <3>3 DEF Review
    <3> QED
      BY <1>7, <2>2, <3>2, <3>4 DEF Reviews
  <2> QED
    BY <2>1, <2>2
<1>8. Reviews(k, u)
  BY <1>5, <1>7 DEF Reviews
<1> QED
  BY <1>2, <1>8 DEF k

\* The demo's core starts over with a file of its own.
LEMMA StartsOver ==
    ASSUME NEW m \in {Start, Empty}, manifest \in Manifest
    PROVE  m \in Manifest /\ m.reconciliations = <<>>
<1>1. CASE m = Start
  BY <1>1, CaseReportsAssumption
<1>2. CASE m = Empty
  <2>1. /\ [s \in Sources |-> "UNCLASSIFIED"] \in [Sources -> States]
        /\ <<>> \in Seq(Pairs) /\ <<>> \in Seq(Reconciliation)
    BY DEF States
  <2> QED
    BY <1>2, <2>1 DEF Empty, Manifest, Reconciliation
<1> QED
  BY <1>1, <1>2

-----------------------------------------------------------------------------
(* The invariant holds. *)

\* At first nothing has been reviewed.
LEMMA CaseInvInit == CaseInit => CaseInv
<1> SUFFICES ASSUME CaseInit PROVE CaseInv
  OBVIOUS
<1>1. manifest \in Manifest /\ manifest.reconciliations = <<>>
  BY CaseReportsAssumption DEF CaseInit
<1> QED
  BY <1>1, NoReviews, CaseReportsAssumption DEF CaseInit, CaseInv

\* Every change of the file keeps the invariant.
LEMMA CaseInvStep == CaseInv /\ [CaseNext]_<<vars, caseVars>> => CaseInv'
<1> SUFFICES ASSUME CaseInv, [CaseNext]_<<vars, caseVars>> PROVE CaseInv'
  OBVIOUS
<1>0. CASE UNCHANGED caseVars
  BY <1>0 DEF caseVars, CaseInv
<1> DEFINE Typed == /\ manifest' \in Manifest
                    /\ verdict' \in [Pairs -> (SUBSET Marks) \cup {None}]
                    /\ Reviews(manifest', verdict')
<1>1. ASSUME NEW p \in Statements, AddProposition(p)
      PROVE  Typed
  <2>1. /\ manifest' = [manifest EXCEPT !.propositions = @ \cup {p}]
        /\ verdict' = verdict
    BY <1>1 DEF AddProposition, Becomes, Turns
  <2>2. /\ manifest' \in Manifest
        /\ manifest'.contradictions = manifest.contradictions
        /\ manifest'.reconciliations = manifest.reconciliations
    BY <2>1 DEF CaseInv, Manifest
  <2> QED
    BY <2>1, <2>2, SameReviews DEF CaseInv
<1>2. ASSUME NEW pair \in Pairs, RecordContradiction(pair)
      PROVE  Typed
  <2>1. manifest' = Recorded(manifest, pair) /\ verdict' = verdict
    BY <1>2 DEF RecordContradiction, Becomes, Turns, Recorded
  <2> QED
    BY <2>1, RecordedReviews DEF CaseInv
<1>3. ASSUME NEW n \in 1 .. MaxChanges, NEW marks \in Verdicts, RecordReconciliation(n, marks)
      PROVE  Typed
  <2>1. /\ manifest' = Reconciled(manifest, n, marks)
        /\ verdict' = [verdict EXCEPT ![manifest.contradictions[n]] = marks]
        /\ n \in 1 .. Len(manifest.contradictions)
    BY <1>3 DEF RecordReconciliation, Becomes, Turns, Reconciled
  <2>2. marks \in SUBSET Marks
    BY CaseReportsAssumption
  <2>3. verdict' \in [Pairs -> (SUBSET Marks) \cup {None}]
    BY <2>1, <2>2 DEF CaseInv
  <2> QED
    BY <2>1, <2>2, <2>3, ReconciledReviews DEF CaseInv
<1>4. ASSUME NEW s \in Sources, NEW st \in Findings, Classify(s, st)
      PROVE  Typed
  <2>1. /\ manifest' = [manifest EXCEPT !.state[s] = st]
        /\ verdict' = verdict /\ st \in States
    BY <1>4, CaseReportsAssumption DEF Classify, Becomes, Turns
  <2>2. /\ manifest' \in Manifest
        /\ manifest'.contradictions = manifest.contradictions
        /\ manifest'.reconciliations = manifest.reconciliations
    BY <2>1 DEF CaseInv, Manifest
  <2> QED
    BY <2>1, <2>2, SameReviews DEF CaseInv
<1>5. ASSUME NEW t \in Tasks, Escalate(t)
      PROVE  Typed
  <2>1. /\ manifest' = [manifest EXCEPT !.open = IF t \in @ THEN @ \ {t} ELSE @ \cup {t}]
        /\ verdict' = verdict
    BY <1>5 DEF Escalate, Becomes, Turns
  <2>2. /\ manifest' \in Manifest
        /\ manifest'.contradictions = manifest.contradictions
        /\ manifest'.reconciliations = manifest.reconciliations
    BY <2>1 DEF CaseInv, Manifest
  <2> QED
    BY <2>1, <2>2, SameReviews DEF CaseInv
<1>6. ASSUME NEW s \in Sessions, NEW m \in {Start, Empty}, ReplaceDemoData(s, m)
      PROVE  Typed
  <2>1. manifest' = m /\ verdict' = [pair \in Pairs |-> None]
    BY <1>6 DEF ReplaceDemoData, Turns
  <2> QED
    BY <2>1, StartsOver, NoReviews DEF CaseInv
<1>7. CASE CaseStep
  <2>1. Typed
    BY <1>1, <1>2, <1>3, <1>4, <1>5, <1>6, <1>7 DEF CaseStep
  <2>2. changes < MaxChanges /\ changes' = changes + 1
    BY <1>7 DEF CaseStep, AddProposition, RecordContradiction, RecordReconciliation, Classify,
                Escalate, ReplaceDemoData, Becomes, Turns
  <2>3. changes' \in 0 .. MaxChanges
    BY <2>2, CaseReportsAssumption DEF CaseInv
  <2> QED
    BY <2>1, <2>3 DEF CaseInv
<1> QED
  BY <1>0, <1>7 DEF CaseNext, caseVars

\* "Ready" leaves no contradiction of the file open, and what counts for it is
\* the last review: for any case file, however it came about.
THEOREM ReadySettled == CaseSpec => []ReadyMeansSettled
<1>1. CaseInv => ReadyMeansSettled
  <2> SUFFICES ASSUME CaseInv, Gate(manifest) = "READY FOR FINAL HUMAN APPROVAL",
                      NEW n \in 1 .. Len(manifest.contradictions),
                      manifest.contradictions[n] \subseteq SubstantivePropositions(manifest)
               PROVE  /\ verdict[manifest.contradictions[n]] # None
                      /\ "verified" \in verdict[manifest.contradictions[n]]
                      /\ "unresolved" \notin verdict[manifest.contradictions[n]]
    BY DEF ReadyMeansSettled
  <2> DEFINE pair == manifest.contradictions[n]
             recs == ReconciliationsOf(manifest, pair)
  <2>1. pair \in ContradictionGroups(manifest)
    BY DEF ContradictionGroups, Duplicates
  <2>2. Unresolved(manifest) = {}
    BY DEF Gate
  <2>3. ResolutionState(manifest, pair) \in PublicationReady
    <3> DEFINE state == ResolutionState(manifest, pair)
               ids == UNION {Supports(manifest, p) : p \in pair}
               issue == [subject |-> pair, reviewed |-> recs # {}, resolution |-> state,
                         verifiers |-> Verifiers(ids, state)]
    <3>1. issue \in Inconsistencies(manifest)
      BY <2>1 DEF Inconsistencies
    <3>2. issue \in AnalyticalIssues(manifest) /\ issue.resolution = state
      BY <3>1 DEF AnalyticalIssues
    <3> HIDE DEF issue, state
    <3>3. state \in PublicationReady
      BY <2>2, <3>2 DEF Unresolved
    <3> QED
      BY <3>3 DEF state
  <2>4. /\ recs # {} /\ "verified" \in Review(manifest, pair)
        /\ "unresolved" \notin Review(manifest, pair)
    BY <2>3 DEF ResolutionState, ResolutionFor, PublicationReady
  <2>5. pair \in Pairs
    <3>1. manifest.contradictions \in Seq(Pairs)
      BY FileHas DEF CaseInv
    <3> QED
      BY <3>1, ElementIs
  <2>6. verdict[pair] = Review(manifest, pair)
    BY <2>4, <2>5 DEF CaseInv, Reviews
  <2>7. Review(manifest, pair) \in SUBSET Marks
    <3>1. recs \in SUBSET (1 .. Len(manifest.reconciliations))
      BY DEF ReconciliationsOf
    <3>2. /\ Len(manifest.reconciliations) \in Nat
          /\ manifest.reconciliations \in Seq(Reconciliation)
      BY FileHas DEF CaseInv
    <3>3. Max(recs) \in 1 .. Len(manifest.reconciliations)
      BY <2>4, <3>1, <3>2, MaxIs
    <3>4. manifest.reconciliations[Max(recs)] \in Reconciliation
      BY <3>2, <3>3, ElementIs
    <3> QED
      BY <3>4 DEF Review, Reconciliation
  <2> QED
    BY <2>4, <2>6, <2>7, CaseReportsAssumption
<1> QED
  BY <1>1, CaseInvInit, CaseInvStep, PTL DEF CaseSpec

-----------------------------------------------------------------------------
(* The case and its reports are an instance of ReportPublication: a change *)
(* of the case file changes the current reports, and nothing else of the   *)
(* publication.                                                            *)

ReportsAreTexts == \A m \in Manifest : Yields(m) \in [Reports -> Texts]

\* The composition starts where publication starts,
LEMMA CaseInits == ASSUME ReportsAreTexts PROVE CaseInit => Init
BY DEF CaseInit

\* and each of its steps is one of publication, or none.
LEMMA CaseSteps ==
    ASSUME ReportsAreTexts
    PROVE  CaseInv /\ CaseInv' /\ [CaseNext]_<<vars, caseVars>> => [Next]_vars
<1> SUFFICES ASSUME CaseInv, CaseInv', [CaseNext]_<<vars, caseVars>> PROVE [Next]_vars
  OBVIOUS
<1>1. CASE CaseStep
  <2>1. current' \in [Reports -> Texts]
    <3>1. current' = Yields(manifest')
      BY <1>1 DEF CaseStep, AddProposition, RecordContradiction, RecordReconciliation, Classify,
                  Escalate, ReplaceDemoData, Becomes, Turns
    <3> QED
      BY <3>1, ReportsAreTexts DEF CaseInv, ReportsAreTexts
  <2>2. \/ UNCHANGED <<backend, key, file, page, ghosts, counters>>
        \/ \E s \in Sessions : EmptyState(s)
    BY <1>1 DEF CaseStep, AddProposition, RecordContradiction, RecordReconciliation, Classify,
                Escalate, ReplaceDemoData, Becomes
  <2> QED
    BY <2>1, <2>2 DEF Next, CaseChanges
<1>2. CASE \E s \in Sessions : (PageStep(s) \/ NewSession(s)) /\ UNCHANGED caseVars
  BY <1>2 DEF Next
<1>3. CASE KeyReplaced /\ UNCHANGED caseVars
  BY <1>3 DEF Next
<1>4. CASE UNCHANGED <<vars, caseVars>>
  BY <1>4
<1> QED
  BY <1>1, <1>2, <1>3, <1>4 DEF CaseNext

\* If every report a case file yields is a text, the composition of case and
\* publication implements ReportPublication.
THEOREM CaseIsPublication == ASSUME ReportsAreTexts PROVE CaseSpec => Spec
<1>1. CaseInv /\ [CaseNext]_<<vars, caseVars>> => CaseInv'
  BY CaseInvStep
<1> QED
  BY <1>1, CaseInits, CaseInvInit, CaseSteps, PTL DEF CaseSpec, Spec

\* Every reachable state of the composition has its type.
THEOREM CaseTypeCorrect == ASSUME ReportsAreTexts PROVE CaseSpec => []CaseTypeOK
<1>1. CaseInv /\ [CaseNext]_<<vars, caseVars>> => CaseInv'
  BY CaseInvStep
<1>2. CaseInv /\ TypeOK => CaseTypeOK
  BY DEF CaseInv, CaseTypeOK
<1> QED
  BY <1>1, <1>2, CaseInvInit, CaseIsPublication, TypeCorrect, PTL DEF CaseSpec

\* What clients are shown of a case under review was approved, in that text,
\* however the case changes and staff's pages overlap.
THEOREM CaseShownApproved == ASSUME ReportsAreTexts PROVE CaseSpec => []ShownWasApproved
BY CaseIsPublication, ShownApproved, PTL

\* One page at a time, the case under review keeps the promise of ReportPromise.
THEOREM CasePromiseKept ==
    ASSUME ReportsAreTexts, Overlap = FALSE PROVE CaseSpec => KeepsPromise
BY CaseIsPublication, PromiseKept, PTL
=============================================================================
