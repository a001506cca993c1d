------------------------ MODULE RecordsIntakeProofs ------------------------
(***************************************************************************)
(* Theorems about RecordsIntake for any uploads, any invocations of the    *)
(* edge function and any number of failures.                               *)
(*                                                                         *)
(* RegistrationIsTrue needs to know why the registry holds what the job    *)
(* says: a link of the upload and a REGISTERED segment each stand for a    *)
(* source.  DuplicatesAreNoticed needs the same of uploads that are not    *)
(* registered yet: of two live uploads of one file one is marked.          *)
(*                                                                         *)
(* FilesSurvive and BundlesStayRed turn on the uploads of the intake form: *)
(* the last part states once what a step does to an upload, from which     *)
(* both follow.                                                            *)
(***************************************************************************)
EXTENDS RecordsIntake, FiniteSetTheorems, TLAPS

\* What a registered job j of upload u owes to the registry.
Truth(u, row, j, segs, srcs) ==
    j.status = "REGISTERED" =>
        IF j.registered
        THEN row.source /\ Whole(u) \in srcs
        ELSE \A n \in 1 .. j.pages :
                \E g \in segs :
                    /\ n \in g.pages
                    /\ g.status = "REGISTERED"
                    /\ [of |-> u, pages |-> g.pages] \in srcs

\* An upload outside a case is untouched.
Staged(u, row, j, srcs) ==
    ~row.inCase => /\ row.status \in {"NONE", "RECEIVED"}
                   /\ ~row.source
                   /\ j.status \notin Closed
                   /\ \A s \in srcs : s.of # u

\* What holds of each upload, given its row, its job, its segments.
RowOK(u, row, j, segs, srcs) ==
    /\ Staged(u, row, j, srcs)
    /\ row.status = "NONE" => ~row.inCase
    /\ row.status # "REJECTED"
    /\ row.status = "SUPERSEDED" => j.duplicate
    /\ row.source => Whole(u) \in srcs
    /\ \A g \in segs : g.status = "REGISTERED" => [of |-> u, pages |-> g.pages] \in srcs
    /\ Truth(u, row, j, segs, srcs)

RowsOK == \A u \in Uploads : RowOK(u, upload[u], job[u], segments[u], sources)

\* A copy of its file that counts.
Live(u) ==
    upload[u].inCase /\ (Registered(u) \/ upload[u].status \in {"RECEIVED", "INGESTED"})

Noticed ==
    \A u, v \in Uploads :
        u # v /\ Doc[u].file = Doc[v].file /\ Live(u) /\ Live(v) =>
            job[u].duplicate \/ job[v].duplicate

\* A running invocation has an upload.
Busy == \A p \in Processors : processor[p].pc \in {"reading", "failing"} => processor[p].of \in Uploads

IInv == TypeOK /\ RowsOK /\ Noticed /\ Busy

-----------------------------------------------------------------------------
(* Frames: what an action that touches one upload leaves alone.            *)

\* Rows other than the touched one keep what they have.
LEMMA OtherRows ==
    ASSUME RowsOK, NEW u \in Uploads,
           \A x \in Uploads \ {u} : /\ upload'[x] = upload[x]
                                    /\ job'[x] = job[x]
                                    /\ segments'[x] = segments[x],
           sources \subseteq sources',
           \A s \in sources' : s.of # u => s \in sources,
           RowOK(u, upload'[u], job'[u], segments'[u], sources')
    PROVE  RowsOK'
<1> SUFFICES ASSUME NEW x \in Uploads
             PROVE  RowOK(x, upload'[x], job'[x], segments'[x], sources')
  BY DEF RowsOK
<1>1. CASE x = u
  BY <1>1
<1>2. CASE x # u
  <2>1. RowOK(x, upload[x], job[x], segments[x], sources)
    BY DEF RowsOK
  <2>2. RowOK(x, upload[x], job[x], segments[x], sources')
    BY <1>2, <2>1 DEF RowOK, Staged, Truth, Whole
  <2> QED
    BY <1>2, <2>2
<1> QED
  BY <1>1, <1>2

\* When nothing becomes live and no mark goes, what was noticed stays so.
LEMMA NoticedKept ==
    ASSUME Noticed,
           \A x \in Uploads : Live(x)' => Live(x),
           \A x \in Uploads : job[x].duplicate => job'[x].duplicate
    PROVE  Noticed'
BY DEF Noticed

\* A row written in the middle of three tables.
LEMMA Fields ==
    ASSUME TypeOK, NEW u \in Uploads
    PROVE  /\ upload[u] \in Upload
           /\ job[u] \in Job
           /\ segments[u] \subseteq Segment
BY DEF TypeOK

\* The trigger yields a job.
LEMMA RefreshedType ==
    ASSUME NEW u \in Uploads, NEW j \in Job, NEW rows, rows[u] \in Upload, NEW srcs
    PROVE  Refreshed(u, j, rows, srcs) \in Job
<1>1. Doc[u].named \in Grade
  BY IntakeAssumption
<1> DEFINE d == rows[u].inCase /\ HasDuplicate(u, rows, srcs)
<1>2. d \in BOOLEAN
  BY DEF HasDuplicate
<1>3. Triaged(u, d) \in JobStatus
  BY <1>1 DEF Triaged, JobStatus, Grade
<1> HIDE DEF d
<1>4. [j EXCEPT !.status = "REGISTERED", !.registered = TRUE] \in Job
  BY DEF Job, JobStatus, Closed
<1>5. [j EXCEPT !.status = "REJECTED"] \in Job /\ [j EXCEPT !.status = "RESOLVED_DUPLICATE"] \in Job
  BY DEF Job, JobStatus, Closed
<1>6. [j EXCEPT !.status = IF j.status = "REGISTERED" THEN @
                           ELSE IF rows[u].inCase THEN Triaged(u, d)
                           ELSE "WAITING_FOR_CASE",
                !.duplicate = d,
                !.bundle = IF Doc[u].packet THEN "PROBABLE_BUNDLE" ELSE "SINGLE"] \in Job
  BY <1>2, <1>3 DEF Job, JobStatus, Bundle
<1> QED
  BY <1>4, <1>5, <1>6 DEF Refreshed, d

\* For a linked upload: registered, unless its segments are.
LEMMA RefreshedLinked ==
    ASSUME NEW u \in Uploads, NEW j \in Job, NEW rows, rows[u] \in Upload, NEW srcs,
           rows[u].source
    PROVE  /\ Refreshed(u, j, rows, srcs).status = "REGISTERED"
           /\ Refreshed(u, j, rows, srcs).duplicate = j.duplicate
           /\ Refreshed(u, j, rows, srcs).pages = j.pages
           /\ Refreshed(u, j, rows, srcs).registered \/ Refreshed(u, j, rows, srcs) = j
<1> DEFINE w == [j EXCEPT !.status = "REGISTERED", !.registered = TRUE]
<1>1. /\ w.status = "REGISTERED" /\ w.registered
      /\ w.duplicate = j.duplicate /\ w.pages = j.pages
  BY DEF Job
<1> HIDE DEF w
<1>2. \/ Refreshed(u, j, rows, srcs) = j /\ j.status = "REGISTERED"
      \/ Refreshed(u, j, rows, srcs) = w
  BY DEF Refreshed, w
<1> QED
  BY <1>1, <1>2

\* For an upload that has just arrived or just entered its case.
LEMMA RefreshedFresh ==
    ASSUME NEW u \in Uploads, NEW j \in Job, NEW rows, rows[u] \in Upload, NEW srcs,
           rows[u].status = "RECEIVED", ~rows[u].source, j.status \notin Closed
    PROVE  /\ Refreshed(u, j, rows, srcs).status \notin Closed
           /\ Refreshed(u, j, rows, srcs).duplicate =
                (rows[u].inCase /\ HasDuplicate(u, rows, srcs))
           /\ rows[u].inCase /\ (Doc[u].packet \/ Doc[u].named = "EXCEPTION") =>
                 Refreshed(u, j, rows, srcs).status = "EXCEPTION"
<1> DEFINE d == rows[u].inCase /\ HasDuplicate(u, rows, srcs)
           w == [j EXCEPT !.status = IF j.status = "REGISTERED" THEN @
                                     ELSE IF rows[u].inCase THEN Triaged(u, d)
                                     ELSE "WAITING_FOR_CASE",
                          !.duplicate = d,
                          !.bundle = IF Doc[u].packet THEN "PROBABLE_BUNDLE" ELSE "SINGLE"]
<1>1. Doc[u].named \in Grade
  BY IntakeAssumption
<1>2. Triaged(u, d) \notin Closed
  BY <1>1 DEF Triaged, Closed, Grade
<1>3. Refreshed(u, j, rows, srcs) = w
  BY DEF Refreshed, Closed
<1>4. w.duplicate = d
  BY DEF Job
<1>5. w.status = IF rows[u].inCase THEN Triaged(u, d) ELSE "WAITING_FOR_CASE"
  BY DEF Job, Closed
<1> HIDE DEF d, w
<1>6. w.status \notin Closed
  BY <1>2, <1>5 DEF Closed
<1>7. rows[u].inCase /\ (Doc[u].packet \/ Doc[u].named = "EXCEPTION") => w.status = "EXCEPTION"
  BY <1>5 DEF Triaged
<1> QED
  BY <1>3, <1>4, <1>6, <1>7 DEF d

\* For an upload that has been set aside.
LEMMA RefreshedAside ==
    ASSUME NEW u \in Uploads, NEW j \in Job, NEW rows, rows[u] \in Upload, NEW srcs,
           rows[u].status = "SUPERSEDED"
    PROVE  Refreshed(u, j, rows, srcs).duplicate = j.duplicate
<1>1. CASE rows[u].source
  BY <1>1, RefreshedLinked
<1>2. CASE ~rows[u].source
  BY <1>2 DEF Refreshed, Job
<1> QED
  BY <1>1, <1>2

\* For a bundle whose segments have just been registered.
LEMMA RefreshedSegmented ==
    ASSUME NEW u \in Uploads, NEW j \in Job, NEW rows, rows[u] \in Upload, NEW srcs,
           rows[u].status = "INGESTED", j.status = "REGISTERED", ~j.registered
    PROVE  /\ Refreshed(u, j, rows, srcs).status = "REGISTERED"
           /\ Refreshed(u, j, rows, srcs).pages = j.pages
           /\ Refreshed(u, j, rows, srcs).registered => rows[u].source
<1>1. CASE rows[u].source
  BY <1>1, RefreshedLinked
<1>2. CASE ~rows[u].source
  BY <1>2 DEF Refreshed, Job
<1> QED
  BY <1>1, <1>2

-----------------------------------------------------------------------------
(* Steps that touch one upload and create no source.                       *)

\* The job of one upload moves on without becoming registered.
LEMMA JobMoves ==
    ASSUME IInv, NEW u \in Uploads, NEW j \in Job, NEW g \in SUBSET Segment,
           job' = [job EXCEPT ![u] = j],
           segments' = [segments EXCEPT ![u] = g],
           UNCHANGED <<upload, sources>>,
           j.duplicate = job[u].duplicate,
           j.status = "REGISTERED" => j = job[u] /\ g = segments[u],
           ~upload[u].inCase => j.status \notin Closed,
           \A s \in g : s.status = "REGISTERED" => s \in segments[u]
    PROVE  RowsOK' /\ Noticed' /\ job' \in [Uploads -> Job]
           /\ segments' \in [Uploads -> SUBSET Segment]
<1>1. job \in [Uploads -> Job] /\ segments \in [Uploads -> SUBSET Segment]
  BY DEF IInv, TypeOK
<1>2. job'[u] = j /\ segments'[u] = g
      /\ \A x \in Uploads \ {u} : job'[x] = job[x] /\ segments'[x] = segments[x]
  BY <1>1
<1>3. RowOK(u, upload[u], job[u], segments[u], sources)
  BY DEF IInv, RowsOK
<1>4. RowOK(u, upload[u], j, g, sources)
  <2>1. Staged(u, upload[u], j, sources)
    BY <1>3 DEF RowOK, Staged
  <2>2. Truth(u, upload[u], j, g, sources)
    <3>1. CASE j.status = "REGISTERED"
      BY <3>1, <1>3 DEF RowOK
    <3>2. CASE j.status # "REGISTERED"
      BY <3>2 DEF Truth
    <3> QED
      BY <3>1, <3>2
  <2>3. \A s \in g : s.status = "REGISTERED" => [of |-> u, pages |-> s.pages] \in sources
    BY <1>3 DEF RowOK
  <2> QED
    BY <1>3, <2>1, <2>2, <2>3 DEF RowOK
<1>5. RowsOK'
  <2>1. RowsOK
    BY DEF IInv
  <2> QED
    BY <1>2, <1>4, <2>1, OtherRows
<1>6. Noticed'
  <2>1. \A x \in Uploads : Live(x)' => Live(x)
    BY DEF Live, Registered
  <2>2. \A x \in Uploads : job[x].duplicate => job'[x].duplicate
    BY <1>2
  <2>3. Noticed
    BY DEF IInv
  <2> QED
    BY <2>1, <2>2, <2>3, NoticedKept
<1> QED
  BY <1>1, <1>5, <1>6

\* Proposals are segments, and none of them is registered.
LEMMA ProposedType ==
    ASSUME NEW parts \in SUBSET (SUBSET Nat)
    PROVE  /\ Proposed(parts) \in SUBSET Segment
           /\ \A g \in Proposed(parts) : g.status = "PROPOSED"
<1>1. \A r \in parts : [pages |-> r, status |-> "PROPOSED"] \in Segment
  BY DEF Segment
<1>2. \A g \in Proposed(parts) : \E r \in parts : g = [pages |-> r, status |-> "PROPOSED"]
  BY DEF Proposed
<1> QED
  BY <1>1, <1>2

\* A job that changes its status, and then perhaps its bundle and pages.
LEMMA StatusSteps ==
    ASSUME IInv, NEW u \in Uploads, NEW st \in JobStatus, st # "REGISTERED", st \notin Closed
    PROVE  LET j == [job[u] EXCEPT !.status = st]
           IN j \in Job /\ j.status = st /\ j.duplicate = job[u].duplicate
<1>1. job[u] \in Job
  BY DEF IInv, TypeOK
<1> QED
  BY <1>1 DEF Job

\* An invocation that ends.
LEMMA OverProcessor ==
    ASSUME TypeOK, Busy, NEW p \in Processors, processor' = [processor EXCEPT ![p] = Over]
    PROVE  processor' \in [Processors -> Processor] /\ Busy'
<1>1. Over \in Processor /\ Over.pc = "over"
  BY DEF Over, Idle, Processor
<1>2. processor \in [Processors -> Processor]
  BY DEF TypeOK
<1> QED
  BY <1>1, <1>2 DEF Busy

\* An invocation whose work fails.
LEMMA FailingProcessor ==
    ASSUME TypeOK, Busy, NEW p \in Processors, processor[p].pc \in {"reading", "failing"}, Fault(p, "failing")
    PROVE  processor' \in [Processors -> Processor] /\ Busy' /\ faults' \in 0 .. MaxFaults
<1> DEFINE w == [processor[p] EXCEPT !.pc = "failing"]
<1>1. processor[p] \in Processor /\ processor[p].of \in Uploads
  BY DEF TypeOK, Busy
<1>2. w \in Processor /\ w.of \in Uploads
  BY <1>1 DEF Processor
<1>3. processor' = [processor EXCEPT ![p] = w]
  BY DEF Fault, TypeOK
<1> HIDE DEF w
<1>4. faults' \in 0 .. MaxFaults
  BY IntakeAssumption DEF Fault, TypeOK
<1> QED
  BY <1>2, <1>3, <1>4 DEF TypeOK, Busy

LEMMA BatchFailsStep ==
    ASSUME IInv, NEW u \in Uploads, BatchFails(u)
    PROVE  IInv'
<1> DEFINE j == [job[u] EXCEPT !.status = "FAILED"]
<1>1. j \in Job /\ j.status = "FAILED" /\ j.duplicate = job[u].duplicate
  BY StatusSteps DEF JobStatus, Closed
<1>2. job' = [job EXCEPT ![u] = j]
  BY DEF BatchFails, IInv, TypeOK
<1> HIDE DEF j
<1>3. segments' = [segments EXCEPT ![u] = segments[u]] /\ segments[u] \in SUBSET Segment
  BY DEF BatchFails, IInv, TypeOK
<1>4. RowsOK' /\ Noticed' /\ job' \in [Uploads -> Job]
  <2>1. UNCHANGED <<upload, sources>>
    BY DEF BatchFails
  <2> QED
    BY <1>1, <1>2, <1>3, <2>1, JobMoves DEF Closed
<1>5. TypeOK' /\ Busy'
  BY <1>4, IntakeAssumption DEF BatchFails, IInv, TypeOK, Busy
<1> QED
  BY <1>4, <1>5 DEF IInv

LEMMA WriteFailedStep ==
    ASSUME IInv, NEW p \in Processors, WriteFailed(p)
    PROVE  IInv'
<1>0. processor[p].of \in Uploads
  BY DEF IInv, Busy, WriteFailed
<1> DEFINE u == processor[p].of
           j == [job[u] EXCEPT !.status = "FAILED"]
<1>1. j \in Job /\ j.status = "FAILED" /\ j.duplicate = job[u].duplicate
  BY <1>0, StatusSteps DEF JobStatus, Closed
<1>2. job' = [job EXCEPT ![u] = j]
  BY <1>0 DEF WriteFailed, IInv, TypeOK
<1> HIDE DEF j
<1>3. segments' = [segments EXCEPT ![u] = segments[u]] /\ segments[u] \in SUBSET Segment
  BY <1>0 DEF WriteFailed, IInv, TypeOK
<1>4. RowsOK' /\ Noticed' /\ job' \in [Uploads -> Job]
  <2>1. UNCHANGED <<upload, sources>>
    BY DEF WriteFailed
  <2> HIDE DEF u
  <2>2. u \in Uploads
    BY <1>0 DEF u
  <2> QED
    BY <1>1, <1>2, <1>3, <2>1, <2>2, JobMoves DEF Closed
<1>5. processor' \in [Processors -> Processor] /\ Busy'
  BY OverProcessor DEF WriteFailed, IInv
<1>6. TypeOK'
  BY <1>4, <1>5 DEF WriteFailed, IInv, TypeOK
<1> QED
  BY <1>4, <1>5, <1>6 DEF IInv

\* The result of an analysis, for Apply and ApplyUnanswered.
LEMMA AnalysedStep ==
    ASSUME IInv, NEW u \in Uploads, NEW packet \in BOOLEAN, NEW grade \in Grade,
           Analysed(u, packet, grade), UNCHANGED <<upload, sources>>
    PROVE  RowsOK' /\ Noticed' /\ job' \in [Uploads -> Job]
           /\ segments' \in [Uploads -> SUBSET Segment]
<1>1. CASE job[u].status \in Closed
  <2>1. UNCHANGED <<job, segments>>
    BY <1>1 DEF Analysed
  <2>2. RowsOK'
    BY <2>1 DEF IInv, RowsOK
  <2>3. Noticed'
    BY <2>1 DEF IInv, Noticed, Live, Registered
  <2> QED
    BY <2>1, <2>2, <2>3 DEF IInv, TypeOK
<1>2. CASE job[u].status \notin Closed
  <2> DEFINE parts == Doc[u].parts
             bundle == IF packet \/ Cardinality(parts) > 1 THEN "PROBABLE_BUNDLE" ELSE "SINGLE"
             st == Disposition(job[u].duplicate, parts, bundle, grade)
             j == [job[u] EXCEPT !.status = st, !.bundle = bundle, !.pages = Doc[u].pages]
             g == Proposed(parts)
  <2>1. parts \in SUBSET (SUBSET Nat) /\ Doc[u].pages \in Nat
    BY IntakeAssumption
  <2>2. bundle \in Bundle
    BY DEF Bundle
  <2>3. st \in Grade
    BY DEF Disposition, Grade
  <2>4. job[u] \in Job
    BY DEF IInv, TypeOK
  <2>5. job' = [job EXCEPT ![u] = j] /\ segments' = [segments EXCEPT ![u] = g]
    BY <1>2 DEF Analysed, IInv, TypeOK
  <2>6. g \in SUBSET Segment /\ \A s \in g : s.status = "PROPOSED"
    BY <2>1, ProposedType
  <2> HIDE DEF parts, bundle, st, g
  <2>7. j \in Job /\ j.status = st /\ j.duplicate = job[u].duplicate
    BY <2>1, <2>2, <2>3, <2>4 DEF Job, JobStatus
  <2> HIDE DEF j
  <2>8. j.status \notin Closed
    BY <2>3, <2>7 DEF Grade, Closed
  <2>9. j.status # "REGISTERED"
    BY <2>8 DEF Closed
  <2>10. \A s \in g : s.status = "REGISTERED" => s \in segments[u]
    BY <2>6
  <2> QED
    BY <2>5, <2>6, <2>7, <2>8, <2>9, <2>10, JobMoves
<1> QED
  BY <1>1, <1>2

LEMMA ApplySteps ==
    ASSUME IInv, NEW p \in Processors, Apply(p) \/ ApplyUnanswered(p)
    PROVE  IInv'
<1> DEFINE u == processor[p].of
           packet == processor[p].packet
<1>1. u \in Uploads /\ packet \in BOOLEAN
  BY DEF IInv, Busy, Apply, ApplyUnanswered, TypeOK, Processor
<1>2. Doc[u].read \in Grade
  BY <1>1, IntakeAssumption
<1>3. PICK grade \in Grade : Analysed(u, packet, grade)
  BY <1>2 DEF Apply, ApplyUnanswered, Grade
<1>4. UNCHANGED <<upload, sources, caseOpen>>
  BY DEF Apply, ApplyUnanswered
<1> HIDE DEF u, packet
<1>5. RowsOK' /\ Noticed' /\ job' \in [Uploads -> Job]
      /\ segments' \in [Uploads -> SUBSET Segment]
  BY <1>1, <1>3, <1>4, AnalysedStep
<1>6. processor' \in [Processors -> Processor] /\ Busy' /\ faults' \in 0 .. MaxFaults
  <2>1. CASE Apply(p)
    BY <2>1, OverProcessor DEF Apply, IInv, TypeOK
  <2>2. CASE ApplyUnanswered(p)
    BY <2>2, FailingProcessor DEF ApplyUnanswered, IInv
  <2> QED
    BY <2>1, <2>2
<1> QED
  BY <1>4, <1>5, <1>6 DEF IInv, TypeOK

\* Queueing, failing and dying leave the tables alone.
LEMMA InvocationSteps ==
    ASSUME IInv, NEW p \in Processors,
           Throws(p) \/ Dies(p) \/ \E u \in Uploads : Queue(p, u)
    PROVE  IInv'
<1>1. UNCHANGED <<upload, job, segments, sources, caseOpen>>
  BY DEF Throws, Dies, Queue
<1>2. RowsOK'
  BY <1>1 DEF IInv, RowsOK
<1>3. Noticed'
  BY <1>1 DEF IInv, Noticed, Live, Registered
<1>4. processor' \in [Processors -> Processor] /\ Busy' /\ faults' \in 0 .. MaxFaults
  <2>1. CASE Throws(p)
    BY <2>1, FailingProcessor DEF Throws, IInv
  <2>2. CASE Dies(p)
    <3>1. processor' \in [Processors -> Processor] /\ Busy'
      BY <2>2, OverProcessor DEF Dies, IInv
    <3>2. faults' \in 0 .. MaxFaults
      BY <2>2, IntakeAssumption DEF Dies, IInv, TypeOK
    <3> QED
      BY <3>1, <3>2
  <2>3. ASSUME NEW u \in Uploads, Queue(p, u)
        PROVE  processor' \in [Processors -> Processor] /\ Busy' /\ faults' \in 0 .. MaxFaults
    <3>1. [pc |-> "reading", of |-> u, packet |-> job[u].bundle = "PROBABLE_BUNDLE"] \in Processor
      BY DEF Processor
    <3> QED
      BY <2>3, <3>1 DEF Queue, IInv, TypeOK, Busy
  <2> QED
    BY <2>1, <2>2, <2>3
<1> QED
  BY <1>1, <1>2, <1>3, <1>4 DEF IInv, TypeOK

LEMMA ReplaceSegmentsStep ==
    ASSUME IInv, NEW u \in Uploads, NEW parts \in SUBSET Ranges(u), ReplaceSegments(u, parts)
    PROVE  IInv'
<1> DEFINE j == [job[u] EXCEPT !.status = "EXCEPTION", !.bundle = "PROBABLE_BUNDLE"]
           g == Proposed(parts)
<1>1. job[u] \in Job
  BY DEF IInv, TypeOK
<1>2. j \in Job /\ j.status = "EXCEPTION" /\ j.duplicate = job[u].duplicate
  BY <1>1 DEF Job, JobStatus, Grade, Bundle
<1>3. job' = [job EXCEPT ![u] = j] /\ segments' = [segments EXCEPT ![u] = g]
  BY DEF ReplaceSegments, IInv, TypeOK
<1>4. parts \in SUBSET (SUBSET Nat)
  <2>1. Doc[u].pages \in Nat
    BY IntakeAssumption
  <2>2. \A r \in Ranges(u) : r \subseteq Nat
    BY <2>1 DEF Ranges
  <2> QED
    BY <2>2
<1>5. g \in SUBSET Segment /\ \A s \in g : s.status = "PROPOSED"
  BY <1>4, ProposedType
<1> HIDE DEF j, g
<1>6. UNCHANGED <<upload, sources, processor, caseOpen, faults>>
  BY DEF ReplaceSegments
<1>7. \A s \in g : s.status = "REGISTERED" => s \in segments[u]
  BY <1>5
<1>8. j.status # "REGISTERED" /\ j.status \notin Closed
  BY <1>2 DEF Closed
<1>9. RowsOK' /\ Noticed' /\ job' \in [Uploads -> Job]
      /\ segments' \in [Uploads -> SUBSET Segment]
  BY <1>2, <1>3, <1>5, <1>6, <1>7, <1>8, JobMoves
<1> QED
  BY <1>6, <1>9 DEF IInv, TypeOK, Busy

-----------------------------------------------------------------------------
(* Steps that create sources, or enter the case.                           *)

\* A row of the upload table.
LEMMA RowType ==
    ASSUME TypeOK, NEW u \in Uploads, NEW r \in Upload, upload' = [upload EXCEPT ![u] = r]
    PROVE  /\ upload' \in [Uploads -> Upload]
           /\ upload'[u] = r
           /\ \A x \in Uploads \ {u} : upload'[x] = upload[x]
BY DEF TypeOK

\* One upload gets a row r, a job j and new sources of its own.
LEMMA Registers ==
    ASSUME IInv, NEW u \in Uploads, NEW r \in Upload, NEW j \in Job,
           NEW g \in SUBSET Segment, NEW S \in SUBSET Source,
           upload' = [upload EXCEPT ![u] = r],
           job' = [job EXCEPT ![u] = j],
           segments' = [segments EXCEPT ![u] = g],
           sources' = sources \cup S,
           \A s \in S : s.of = u,
           RowOK(u, r, j, g, sources'),
           Live(u)' => Live(u) \/ j.duplicate,
           job[u].duplicate => j.duplicate,
           UNCHANGED <<processor, caseOpen, faults>>
    PROVE  IInv'
<1>1. /\ upload \in [Uploads -> Upload]
      /\ job \in [Uploads -> Job]
      /\ segments \in [Uploads -> SUBSET Segment]
      /\ sources \subseteq Source
      /\ RowsOK /\ Noticed
  BY DEF IInv, TypeOK
<1>2. upload'[u] = r /\ job'[u] = j /\ segments'[u] = g
  BY <1>1
<1>3. \A x \in Uploads \ {u} : /\ upload'[x] = upload[x]
                               /\ job'[x] = job[x]
                               /\ segments'[x] = segments[x]
  BY <1>1
<1>4. RowsOK'
  <2>1. \A s \in sources' : s.of # u => s \in sources
    OBVIOUS
  <2> QED
    BY <1>1, <1>2, <1>3, <2>1, OtherRows
<1>5. Noticed'
  <2>1. \A x \in Uploads \ {u} : Live(x)' => Live(x)
    BY <1>3 DEF Live, Registered
  <2> SUFFICES ASSUME NEW x \in Uploads, NEW y \in Uploads, x # y,
                      Doc[x].file = Doc[y].file, Live(x)', Live(y)'
               PROVE  job'[x].duplicate \/ job'[y].duplicate
    BY DEF Noticed
  <2>2. CASE x # u /\ y # u
    BY <1>1, <1>3, <2>1, <2>2 DEF Noticed
  <2>3. CASE x = u
    BY <1>1, <1>2, <1>3, <2>1, <2>3 DEF Noticed
  <2>4. CASE y = u
    BY <1>1, <1>2, <1>3, <2>1, <2>4 DEF Noticed
  <2> QED
    BY <2>2, <2>3, <2>4
<1>6. TypeOK'
  BY <1>1 DEF IInv, TypeOK
<1>7. Busy'
  BY DEF IInv, Busy
<1> QED
  BY <1>4, <1>5, <1>6, <1>7 DEF IInv

\* The whole upload: the row and the job that registration leaves.
LEMMA WholeRegisters ==
    ASSUME IInv, NEW u \in Uploads, Registrable(u), NEW r \in Upload, NEW j \in Job,
           upload' = [upload EXCEPT ![u] = r],
           job' = [job EXCEPT ![u] = j],
           sources' = sources \cup {Whole(u)},
           r.inCase, r.source, r.status \notin {"NONE", "REJECTED"},
           r.status = "SUPERSEDED" => upload[u].status = "SUPERSEDED",
           j.status = "REGISTERED", j.duplicate = job[u].duplicate,
           \/ j.registered
           \/ job[u].status = "REGISTERED" /\ ~job[u].registered /\ j.pages = job[u].pages
              /\ ~j.registered,
           UNCHANGED <<segments, processor, caseOpen, faults>>
    PROVE  IInv'
<1>1. /\ upload[u] \in Upload
      /\ job[u] \in Job
      /\ segments[u] \in SUBSET Segment
      /\ segments \in [Uploads -> SUBSET Segment]
  BY DEF IInv, TypeOK
<1>2. RowOK(u, upload[u], job[u], segments[u], sources)
  BY DEF IInv, RowsOK
<1>3. Truth(u, r, j, segments[u], sources')
  <2>1. CASE j.registered
    BY <2>1 DEF Truth
  <2>2. CASE ~j.registered
    <3>1. Truth(u, upload[u], job[u], segments[u], sources)
      BY <1>2 DEF RowOK
    <3>2. \A n \in 1 .. job[u].pages :
             \E g \in segments[u] : /\ n \in g.pages
                                    /\ g.status = "REGISTERED"
                                    /\ [of |-> u, pages |-> g.pages] \in sources
      BY <2>2, <3>1 DEF Truth
    <3> QED
      BY <2>2, <3>2 DEF Truth
  <2> QED
    BY <2>1, <2>2
<1>4. RowOK(u, r, j, segments[u], sources')
  <2>1. \A g \in segments[u] : g.status = "REGISTERED" =>
            [of |-> u, pages |-> g.pages] \in sources'
    BY <1>2 DEF RowOK
  <2>2. r.status = "SUPERSEDED" => j.duplicate
    BY <1>2 DEF RowOK
  <2> QED
    BY <1>3, <2>1, <2>2 DEF RowOK, Staged
<1>5. Live(u)
  <2>1. CASE upload[u].source
    <3>1. Whole(u) \in sources /\ Whole(u).of = u
      BY <1>2, <2>1 DEF RowOK, Whole
    <3> QED
      BY <3>1 DEF Live, Registered, Registrable
  <2>2. CASE ~upload[u].source
    <3>1. upload[u].status \in {"RECEIVED", "INGESTED"}
      BY <1>1, <1>2, <2>2 DEF Registrable, RowOK, Upload, UploadStatus
    <3> QED
      BY <3>1 DEF Live, Registrable
  <2> QED
    BY <2>1, <2>2
<1> DEFINE S == {Whole(u)}
<1>6. S \in SUBSET Source /\ (\A s \in S : s.of = u) /\ sources' = sources \cup S
  BY DEF Whole, Source
<1>7. segments' = [segments EXCEPT ![u] = segments[u]]
  BY <1>1
<1>8. job[u].duplicate => j.duplicate
  OBVIOUS
<1> HIDE DEF S
<1>9. UNCHANGED <<processor, caseOpen, faults>>
  OBVIOUS
<1> QED
  BY <1>1, <1>4, <1>5, <1>6, <1>7, <1>8, <1>9, Registers, ZenonT(60)

LEMMA RegisterWholeStep ==
    ASSUME IInv, NEW u \in Uploads, Registrable(u), RegisterWhole(u),
           UNCHANGED <<segments, processor, caseOpen, faults>>
    PROVE  IInv'
<1> DEFINE r == [upload[u] EXCEPT !.source = TRUE,
                                  !.status = IF upload[u].source THEN @ ELSE "INGESTED"]
           j == [job[u] EXCEPT !.status = "REGISTERED", !.registered = TRUE]
<1>1. upload[u] \in Upload /\ job[u] \in Job
  BY DEF IInv, TypeOK
<1>2. upload[u].inCase /\ upload[u].status \notin {"NONE", "REJECTED"}
  BY DEF IInv, RowsOK, RowOK, Registrable
<1>3. /\ r \in Upload /\ r.inCase /\ r.source
      /\ r.status \notin {"NONE", "REJECTED"}
      /\ r.status = "SUPERSEDED" => upload[u].status = "SUPERSEDED"
  BY <1>1, <1>2 DEF Upload, UploadStatus
<1>4. /\ j \in Job /\ j.status = "REGISTERED" /\ j.registered
      /\ j.duplicate = job[u].duplicate
  BY <1>1 DEF Job, JobStatus, Closed
<1>5. upload' = [upload EXCEPT ![u] = r] /\ job' = [job EXCEPT ![u] = j]
      /\ sources' = sources \cup {Whole(u)}
  BY DEF RegisterWhole, IInv, TypeOK
<1> HIDE DEF r, j
<1> QED
  BY <1>3, <1>4, <1>5, WholeRegisters

\* A write that fires the trigger for one upload.
LEMMA WriteOne ==
    ASSUME TypeOK, NEW u \in Uploads, NEW rows, NEW srcs, Write({u}, rows, srcs)
    PROVE  job' = [job EXCEPT ![u] = Refreshed(u, job[u], rows, srcs)]
BY DEF Write, TypeOK

LEMMA RegisterDirectlyStep ==
    ASSUME IInv, NEW u \in Uploads, RegisterDirectly(u)
    PROVE  IInv'
<1> DEFINE r == [upload[u] EXCEPT !.source = TRUE, !.status = "INGESTED"]
           rows == [upload EXCEPT ![u].source = TRUE, ![u].status = "INGESTED"]
           srcs == sources \cup {Whole(u)}
           j == Refreshed(u, job[u], rows, srcs)
<1>1. upload[u] \in Upload /\ job[u] \in Job
  BY DEF IInv, TypeOK
<1>2. r \in Upload /\ r.inCase /\ r.source /\ r.status = "INGESTED"
  BY <1>1 DEF Upload, UploadStatus, RegisterDirectly, Registrable
<1>3. rows = [upload EXCEPT ![u] = r] /\ rows[u] = r
  BY DEF IInv, TypeOK
<1>4. job' = [job EXCEPT ![u] = j] /\ upload' = rows /\ sources' = srcs
  BY WriteOne DEF RegisterDirectly, Write, IInv
<1>5. Registrable(u) /\ UNCHANGED <<segments, processor, caseOpen, faults>>
  BY DEF RegisterDirectly
<1> HIDE DEF r, rows, srcs
<1>6. j \in Job
  BY <1>1, <1>2, <1>3, RefreshedType
<1>7. /\ j.status = "REGISTERED"
      /\ j.duplicate = job[u].duplicate
      /\ j.pages = job[u].pages
      /\ j.registered \/ j = job[u]
  <2>1. rows[u] \in Upload /\ rows[u].source
    BY <1>2, <1>3
  <2> QED
    BY <1>1, <2>1, RefreshedLinked
<1> HIDE DEF j
<1>8. \/ j.registered
      \/ job[u].status = "REGISTERED" /\ ~job[u].registered /\ j.pages = job[u].pages
         /\ ~j.registered
  BY <1>7
<1>9. sources' = sources \cup {Whole(u)}
  BY <1>4 DEF srcs
<1> QED
  BY <1>2, <1>3, <1>4, <1>5, <1>6, <1>7, <1>8, <1>9, WholeRegisters

LEMMA MarkDuplicateStep ==
    ASSUME IInv, NEW u \in Uploads, MarkDuplicate(u)
    PROVE  IInv'
<1> DEFINE r == [upload[u] EXCEPT !.status = "SUPERSEDED"]
           rows == [upload EXCEPT ![u].status = "SUPERSEDED"]
           k == Refreshed(u, job[u], rows, sources)
           j == [k EXCEPT !.status = "RESOLVED_DUPLICATE"]
<1>1. /\ upload[u] \in Upload /\ job[u] \in Job /\ segments[u] \in SUBSET Segment
      /\ RowOK(u, upload[u], job[u], segments[u], sources)
  BY DEF IInv, TypeOK, RowsOK
<1>2. /\ r \in Upload /\ r.status = "SUPERSEDED" /\ r.inCase
      /\ r.source = upload[u].source
  BY <1>1 DEF Upload, UploadStatus, MarkDuplicate
<1>3. rows = [upload EXCEPT ![u] = r] /\ rows[u] = r
  BY DEF IInv, TypeOK
<1>4. /\ upload' = rows /\ job' = [job EXCEPT ![u] = j] /\ job[u].duplicate
      /\ UNCHANGED <<segments, sources, processor, caseOpen, faults>>
  BY DEF MarkDuplicate
<1> HIDE DEF r, rows
<1>5. k \in Job /\ k.duplicate = job[u].duplicate
  <2>1. rows[u] \in Upload /\ rows[u].status = "SUPERSEDED"
    BY <1>2, <1>3
  <2>2. k \in Job
    BY <1>1, <2>1, RefreshedType
  <2>3. k.duplicate = job[u].duplicate
    BY <1>1, <2>1, RefreshedAside
  <2> QED
    BY <2>2, <2>3
<1> HIDE DEF k
<1>6. j \in Job /\ j.status = "RESOLVED_DUPLICATE" /\ j.duplicate
  BY <1>4, <1>5 DEF Job, JobStatus, Closed
<1> HIDE DEF j
<1>7. RowOK(u, r, j, segments[u], sources')
  BY <1>1, <1>2, <1>4, <1>6 DEF RowOK, Staged, Truth
<1>8. segments' = [segments EXCEPT ![u] = segments[u]]
  BY <1>4 DEF IInv, TypeOK
<1>9. sources' = sources \cup {} /\ {} \in SUBSET Source
  BY <1>4
<1>10. /\ upload' = [upload EXCEPT ![u] = r]
       /\ job' = [job EXCEPT ![u] = j]
       /\ UNCHANGED <<processor, caseOpen, faults>>
  BY <1>3, <1>4
<1>11. \A s \in {} : s.of = u
  OBVIOUS
<1>12. job[u].duplicate => j.duplicate
  BY <1>6
<1>13. Live(u)' => Live(u) \/ j.duplicate
  BY <1>6
<1> QED
  BY <1>1, <1>2, <1>6, <1>7, <1>8, <1>9, <1>10, <1>11, <1>12, <1>13, Registers

\* Ranges that cover a page hold it.
LEMMA CoveredPages ==
    ASSUME NEW ranges, NEW pages \in Nat, CoversEachPageOnce(ranges, pages),
           NEW n \in 1 .. pages
    PROVE  \E r \in ranges : n \in r
<1>1. Cardinality({r \in ranges : n \in r}) = 1
  BY DEF CoversEachPageOnce
<1>2. {r \in ranges : n \in r} # {}
  BY <1>1, FS_EmptySet
<1> QED
  BY <1>2

\* Registering segments keeps their pages.
LEMMA RegisteredSegments ==
    ASSUME NEW g \in SUBSET Segment
    PROVE  LET done == {[x EXCEPT !.status = "REGISTERED"] : x \in g}
           IN /\ \A y \in done : \E x \in g : y.pages = x.pages
              /\ done \in SUBSET Segment
              /\ \A x \in g : \E y \in done : y.pages = x.pages /\ y.status = "REGISTERED"
<1> DEFINE f(x) == [x EXCEPT !.status = "REGISTERED"]
           done == {f(x) : x \in g}
<1>1. \A x \in g : f(x) \in Segment /\ f(x).pages = x.pages /\ f(x).status = "REGISTERED"
  BY DEF Segment
<1>2. (\A x \in g : f(x) \in done) /\ (\A y \in done : \E x \in g : y = f(x))
  OBVIOUS
<1> HIDE DEF f, done
<1>3. /\ \A y \in done : \E x \in g : y.pages = x.pages
      /\ done \in SUBSET Segment
      /\ \A x \in g : \E y \in done : y.pages = x.pages /\ y.status = "REGISTERED"
  BY <1>1, <1>2
<1> QED
  BY <1>3 DEF f, done

LEMMA ConfirmSegmentsStep ==
    ASSUME IInv, NEW u \in Uploads, ConfirmSegments(u)
    PROVE  IInv'
<1> DEFINE open == {g.pages : g \in {g \in segments[u] : g.status = "PROPOSED"}}
           S == {[of |-> u, pages |-> x] : x \in open}
           r == [upload[u] EXCEPT !.status = "INGESTED"]
           rows == [upload EXCEPT ![u].status = "INGESTED"]
           done == [job[u] EXCEPT !.status = "REGISTERED", !.registered = FALSE,
                                  !.bundle = "BUNDLE"]
           srcs == sources \cup S
           j == Refreshed(u, done, rows, srcs)
           segs == {[g EXCEPT !.status = "REGISTERED"] : g \in segments[u]}
<1>1. /\ upload[u] \in Upload /\ job[u] \in Job /\ segments[u] \in SUBSET Segment
      /\ RowOK(u, upload[u], job[u], segments[u], sources)
  BY DEF IInv, TypeOK, RowsOK
<1>2. /\ upload' = rows /\ job' = [job EXCEPT ![u] = j] /\ sources' = srcs
      /\ UNCHANGED <<processor, caseOpen, faults>>
      /\ Open(u) /\ ~job[u].duplicate /\ CoversEachPageOnce(open, job[u].pages)
  BY DEF ConfirmSegments
<1>3. segments' = [segments EXCEPT ![u] = segs]
  BY DEF ConfirmSegments, IInv, TypeOK
<1>4. rows = [upload EXCEPT ![u] = r] /\ rows[u] = r
  BY DEF IInv, TypeOK
<1>5. /\ r \in Upload /\ r.inCase /\ r.status = "INGESTED"
      /\ r.source = upload[u].source
  BY <1>1, <1>2 DEF Upload, UploadStatus, Open
<1>6. /\ done \in Job /\ done.status = "REGISTERED" /\ ~done.registered
      /\ done.pages = job[u].pages
  BY <1>1 DEF Job, JobStatus, Closed, Bundle
<1>7. S \in SUBSET Source /\ \A s \in S : s.of = u
  BY <1>1 DEF Segment, Source
<1>8. /\ \A g \in segs : \E h \in segments[u] : g.pages = h.pages
      /\ segs \in SUBSET Segment
      /\ \A h \in segments[u] : \E g \in segs : g.pages = h.pages /\ g.status = "REGISTERED"
  BY <1>1, RegisteredSegments
<1>11. \A h \in segments[u] : [of |-> u, pages |-> h.pages] \in srcs
  <2> SUFFICES ASSUME NEW h \in segments[u] PROVE [of |-> u, pages |-> h.pages] \in srcs
    OBVIOUS
  <2>1. CASE h.status = "REGISTERED"
    BY <1>1, <2>1 DEF RowOK
  <2>2. CASE h.status = "PROPOSED"
    BY <2>2
  <2> QED
    BY <1>1, <2>1, <2>2 DEF Segment
<1>12. \A x \in open : \E h \in segments[u] : h.pages = x
  OBVIOUS
<1> HIDE DEF r, rows, done, segs, open, S
<1>13. j \in Job
  BY <1>4, <1>5, <1>6, RefreshedType
<1>14. /\ j.status = "REGISTERED"
       /\ j.pages = job[u].pages
       /\ j.registered => r.source
  <2>1. rows[u] \in Upload /\ rows[u].status = "INGESTED" /\ rows[u] = r
    BY <1>4, <1>5
  <2> HIDE DEF srcs
  <2> QED
    BY <1>6, <2>1, RefreshedSegmented
<1> HIDE DEF j, srcs
<1>15. Truth(u, r, j, segs, srcs)
  <2>1. CASE j.registered
    <3>1. Whole(u) \in srcs
      BY <1>1, <1>5, <1>14, <2>1 DEF RowOK, srcs
    <3> QED
      BY <1>14, <2>1, <3>1 DEF Truth
  <2>2. CASE ~j.registered
    <3> SUFFICES ASSUME NEW n \in 1 .. job[u].pages
                 PROVE  \E g \in segs : /\ n \in g.pages
                                        /\ g.status = "REGISTERED"
                                        /\ [of |-> u, pages |-> g.pages] \in srcs
      BY <1>14, <2>2 DEF Truth
    <3>1. PICK x \in open : n \in x
      <4>1. job[u].pages \in Nat
        BY <1>1 DEF Job
      <4> QED
        BY <1>2, <4>1, CoveredPages
    <3>2. PICK h \in segments[u] : h.pages = x
      BY <1>12
    <3>3. PICK g \in segs : g.pages = h.pages /\ g.status = "REGISTERED"
      BY <1>8
    <3> QED
      BY <1>11, <3>1, <3>2, <3>3
  <2> QED
    BY <2>1, <2>2
<1>16. RowOK(u, r, j, segs, srcs)
  <2>1. \A g \in segs : [of |-> u, pages |-> g.pages] \in srcs
    BY <1>8, <1>11
  <2>2. r.source => Whole(u) \in srcs
    BY <1>1, <1>5 DEF RowOK, srcs
  <2> QED
    BY <1>5, <1>15, <2>1, <2>2 DEF RowOK, Staged
<1>17. Live(u)
  <2>1. upload[u].inCase
    BY <1>2 DEF Open
  <2>2. upload[u].status \in {"RECEIVED", "INGESTED"}
    BY <1>1, <1>2, <2>1 DEF RowOK, Upload, UploadStatus
  <2> QED
    BY <2>1, <2>2 DEF Live
<1>18. sources' = sources \cup S /\ RowOK(u, r, j, segs, sources')
  BY <1>2, <1>16 DEF srcs
<1>19. upload' = [upload EXCEPT ![u] = r]
  BY <1>2, <1>4
<1> QED
  BY <1>2, <1>3, <1>5, <1>7, <1>8, <1>13, <1>17, <1>18, <1>19, Registers

\* Uploads arrive, or enter their case, and the trigger routes them.
LEMMA ArrivalSteps ==
    ASSUME IInv, NEW S \in SUBSET Uploads, NEW rows \in [Uploads -> Upload],
           Write(S, rows, sources),
           \A x \in Uploads \ S : rows[x] = upload[x],
           \A x \in S : /\ ~upload[x].inCase
                        /\ rows[x].status = "RECEIVED"
                        /\ ~rows[x].source,
           UNCHANGED <<segments, processor, faults>>,
           caseOpen' \in BOOLEAN
    PROVE  IInv' /\ \A x \in S : job[x].status \notin Closed
<1>1. RowsOK /\ Noticed /\ job \in [Uploads -> Job]
  BY DEF IInv, TypeOK
<1>2. \A x \in S : job[x].status \notin Closed /\ \A s \in sources : s.of # x
  BY <1>1 DEF RowsOK, RowOK, Staged
<1>3. /\ upload' = rows /\ sources' = sources
      /\ \A x \in Uploads \ S : job'[x] = job[x]
      /\ \A x \in S : job'[x] = Refreshed(x, job[x], rows, sources)
  BY DEF Write
<1>4. ASSUME NEW x \in S
      PROVE  /\ job'[x] \in Job
             /\ job'[x].status \notin Closed
             /\ job'[x].duplicate = (rows[x].inCase /\ HasDuplicate(x, rows, sources))
  <2>1. x \in Uploads /\ job[x] \in Job /\ rows[x] \in Upload
    BY <1>1
  <2>2. Refreshed(x, job[x], rows, sources) \in Job
    BY <2>1, RefreshedType
  <2>3. /\ Refreshed(x, job[x], rows, sources).status \notin Closed
        /\ Refreshed(x, job[x], rows, sources).duplicate =
             (rows[x].inCase /\ HasDuplicate(x, rows, sources))
    BY <1>2, <2>1, RefreshedFresh
  <2>4. job'[x] = Refreshed(x, job[x], rows, sources)
    BY <1>3
  <2> QED
    BY <2>2, <2>3, <2>4, Zenon
<1>5. TypeOK'
  <2>1. job' \in [Uploads -> Job]
    <3>1. PICK f : job' = [x \in Uploads |-> f[x]]
      <4> DEFINE f == [x \in Uploads |->
                         IF x \in S THEN Refreshed(x, job[x], rows, sources) ELSE job[x]]
      <4>1. job' = [x \in Uploads |-> f[x]]
        BY DEF Write
      <4> QED
        BY <4>1
    <3>2. \A x \in Uploads : job'[x] \in Job
      BY <1>1, <1>3, <1>4
    <3> QED
      BY <3>1, <3>2
  <2> QED
    BY <1>3, <2>1 DEF IInv, TypeOK
<1>6. RowsOK'
  <2> SUFFICES ASSUME NEW x \in Uploads
               PROVE  RowOK(x, rows[x], job'[x], segments[x], sources)
    BY <1>3 DEF RowsOK
  <2>1. RowOK(x, upload[x], job[x], segments[x], sources)
    BY <1>1 DEF RowsOK
  <2>2. CASE x \notin S
    BY <1>3, <2>1, <2>2
  <2>3. CASE x \in S
    <3>1. job'[x].status # "REGISTERED"
      BY <1>4, <2>3 DEF Closed
    <3>2. Truth(x, rows[x], job'[x], segments[x], sources)
      BY <3>1 DEF Truth
    <3>3. Staged(x, rows[x], job'[x], sources)
      BY <1>2, <1>4, <2>3 DEF Staged
    <3> QED
      BY <2>1, <2>3, <3>2, <3>3 DEF RowOK
  <2> QED
    BY <2>2, <2>3
<1>7. Noticed'
  <2>1. ASSUME NEW x \in S, NEW y \in Uploads, x # y,
               Doc[x].file = Doc[y].file, Live(x)', Live(y)'
        PROVE  job'[x].duplicate
    <3>1. rows[x].inCase
      BY <1>3, <2>1 DEF Live
    <3>2. HasDuplicate(x, rows, sources)
      <4>1. CASE Registered(y)'
        BY <1>3, <2>1, <4>1 DEF Registered, HasDuplicate
      <4>2. CASE rows[y].status \in {"RECEIVED", "INGESTED"}
        BY <1>3, <2>1, <4>2 DEF Live, HasDuplicate
      <4> QED
        BY <1>3, <2>1, <4>1, <4>2 DEF Live
    <3> QED
      BY <1>4, <3>1, <3>2
  <2> SUFFICES ASSUME NEW x \in Uploads, NEW y \in Uploads, x # y,
                      Doc[x].file = Doc[y].file, Live(x)', Live(y)'
               PROVE  job'[x].duplicate \/ job'[y].duplicate
    BY DEF Noticed
  <2>2. CASE x \in S
    BY <2>1, <2>2
  <2>3. CASE y \in S
    BY <2>1, <2>3
  <2>4. CASE x \notin S /\ y \notin S
    <3>1. Live(x) /\ Live(y)
      BY <1>3, <2>4 DEF Live, Registered
    <3> QED
      BY <1>1, <1>3, <2>4, <3>1 DEF Noticed
  <2> QED
    BY <2>2, <2>3, <2>4
<1>8. Busy'
  BY DEF IInv, Busy
<1> QED
  BY <1>2, <1>5, <1>6, <1>7, <1>8 DEF IInv

\* Uploads S arrive with rows, or enter their case.
Arrival(S, rows) ==
    /\ Write(S, rows, sources)
    /\ S \in SUBSET Uploads /\ rows \in [Uploads -> Upload]
    /\ \A x \in Uploads \ S : rows[x] = upload[x]
    /\ \A x \in S : /\ ~upload[x].inCase
                    /\ rows[x].status = "RECEIVED"
                    /\ ~rows[x].source
    /\ UNCHANGED <<segments, processor, faults>>
    /\ caseOpen' \in BOOLEAN

LEMMA ReceiveArrives ==
    ASSUME IInv, NEW u \in Uploads, Receive(u)
    PROVE  \E rows : Arrival({u}, rows)
<1> DEFINE r == [upload[u] EXCEPT !.status = "RECEIVED", !.inCase = u \notin Early]
           rows == [upload EXCEPT ![u].status = "RECEIVED", ![u].inCase = u \notin Early]
<1>1. upload[u] \in Upload /\ ~upload[u].inCase /\ ~upload[u].source
  BY DEF Receive, IInv, TypeOK, RowsOK, RowOK, Staged
<1>2. r \in Upload /\ r.status = "RECEIVED" /\ ~r.source
  BY <1>1 DEF Upload, UploadStatus
<1>3. rows = [upload EXCEPT ![u] = r]
  BY DEF IInv, TypeOK
<1> HIDE DEF r
<1>4. rows \in [Uploads -> Upload] /\ rows[u] = r
      /\ \A x \in Uploads \ {u} : rows[x] = upload[x]
  BY <1>2, <1>3 DEF IInv, TypeOK
<1>5. Write({u}, rows, sources) /\ UNCHANGED <<segments, processor, faults>>
      /\ caseOpen' \in BOOLEAN
  BY DEF Receive, IInv, TypeOK
<1> HIDE DEF rows
<1>6. Arrival({u}, rows)
  BY <1>1, <1>2, <1>4, <1>5 DEF Arrival
<1> QED
  BY <1>6

LEMMA OpenCaseArrives ==
    ASSUME IInv, OpenCase
    PROVE  \E rows : \E S \in SUBSET Early :
              /\ Arrival(S, rows)
              /\ \A x \in S : upload[x].status # "NONE" /\ rows[x].inCase
<1> DEFINE S == {u \in Early : upload[u].status # "NONE" /\ ~upload[u].inCase}
           rows == [u \in Uploads |->
                       IF u \in S THEN [upload[u] EXCEPT !.inCase = TRUE] ELSE upload[u]]
<1>1. upload \in [Uploads -> Upload] /\ RowsOK
  BY DEF IInv, TypeOK
<1>2. S \in SUBSET Uploads /\ S \in SUBSET Early /\ \A x \in S : upload[x].status # "NONE"
  BY IntakeAssumption
<1>3. \A x \in S : /\ ~upload[x].inCase
                   /\ upload[x].status = "RECEIVED"
                   /\ ~upload[x].source
  BY <1>1, <1>2 DEF RowsOK, RowOK, Staged
<1>4. \A x \in Uploads : [upload[x] EXCEPT !.inCase = TRUE] \in Upload
                         /\ [upload[x] EXCEPT !.inCase = TRUE].status = upload[x].status
                         /\ [upload[x] EXCEPT !.inCase = TRUE].source = upload[x].source
                         /\ [upload[x] EXCEPT !.inCase = TRUE].inCase
  BY <1>1 DEF Upload
<1>5. Write(S, rows, sources) /\ UNCHANGED <<segments, processor, faults>>
      /\ caseOpen' \in BOOLEAN
  BY DEF OpenCase
<1> HIDE DEF S
<1>6. rows \in [Uploads -> Upload]
  BY <1>1, <1>4
<1>7. /\ \A x \in Uploads \ S : rows[x] = upload[x]
      /\ \A x \in S : /\ ~upload[x].inCase /\ rows[x].status = "RECEIVED"
                      /\ ~rows[x].source /\ rows[x].inCase
  BY <1>2, <1>3, <1>4
<1> HIDE DEF rows
<1>8. Arrival(S, rows)
  BY <1>2, <1>5, <1>6, <1>7 DEF Arrival
<1> QED
  BY <1>2, <1>7, <1>8

LEMMA ReceiveStep ==
    ASSUME IInv, NEW u \in Uploads, Receive(u)
    PROVE  IInv' /\ job[u].status \notin Closed
<1>1. PICK rows : Arrival({u}, rows)
  BY ReceiveArrives
<1>2. IInv' /\ \A x \in {u} : job[x].status \notin Closed
  BY <1>1, ArrivalSteps DEF Arrival
<1> QED
  BY <1>2

LEMMA OpenCaseStep ==
    ASSUME IInv, OpenCase
    PROVE  IInv' /\ \A x \in Uploads : job[x].status \in Closed => job'[x] = job[x]
<1>1. PICK rows : \E S \in SUBSET Early : Arrival(S, rows)
  BY OpenCaseArrives
<1>2. PICK S \in SUBSET Early : Arrival(S, rows)
  BY <1>1
<1>3. IInv' /\ \A x \in S : job[x].status \notin Closed
  BY <1>2, ArrivalSteps DEF Arrival
<1>4. \A x \in Uploads \ S : job'[x] = job[x]
  BY <1>2 DEF Arrival, Write
<1> QED
  BY <1>3, <1>4

-----------------------------------------------------------------------------
(* The invariant.                                                          *)

LEMMA InvInit == Init => IInv
<1> SUFFICES ASSUME Init PROVE IInv
  OBVIOUS
<1>1. TypeOK
  <2>1. Idle \in Processor
    BY DEF Idle, Processor
  <2>2. upload \in [Uploads -> Upload]
    BY DEF Init, Upload, UploadStatus
  <2>3. job \in [Uploads -> Job]
    BY DEF Init, Job, JobStatus, Bundle
  <2>4. faults \in 0 .. MaxFaults
    BY IntakeAssumption DEF Init
  <2> QED
    BY <2>1, <2>2, <2>3, <2>4 DEF Init, TypeOK
<1>2. RowsOK
  BY DEF Init, RowsOK, RowOK, Staged, Truth, Closed
<1>3. Noticed
  BY DEF Init, Noticed, Live
<1>4. Busy
  BY DEF Init, Busy, Idle
<1> QED
  BY <1>1, <1>2, <1>3, <1>4 DEF IInv

LEMMA InvStep == IInv /\ [Next]_vars => IInv'
<1> SUFFICES ASSUME IInv, [Next]_vars PROVE IInv'
  OBVIOUS
<1>1. CASE OpenCase
  BY <1>1, OpenCaseStep
<1>2. ASSUME NEW u \in Uploads, Receive(u) PROVE IInv'
  BY <1>2, ReceiveStep
<1>3. ASSUME NEW u \in Uploads, StaffStep(u) PROVE IInv'
  <2>1. CASE ConfirmJob(u)
    BY <2>1, RegisterWholeStep DEF ConfirmJob
  <2>2. CASE RegisterDirectly(u)
    BY <2>2, RegisterDirectlyStep
  <2>3. CASE BatchRegister(u)
    BY <2>3, RegisterWholeStep DEF BatchRegister
  <2>4. CASE BatchFails(u)
    BY <2>4, BatchFailsStep
  <2>5. CASE MarkDuplicate(u)
    BY <2>5, MarkDuplicateStep
  <2>6. CASE ConfirmSegments(u)
    BY <2>6, ConfirmSegmentsStep
  <2>7. ASSUME NEW parts \in SUBSET Ranges(u), ReplaceSegments(u, parts) PROVE IInv'
    BY <2>7, ReplaceSegmentsStep
  <2> QED
    BY <1>3, <2>1, <2>2, <2>3, <2>4, <2>5, <2>6, <2>7 DEF StaffStep
<1>4. ASSUME NEW p \in Processors, ProcessorStep(p) PROVE IInv'
  <2>1. CASE Apply(p) \/ ApplyUnanswered(p)
    BY <2>1, ApplySteps
  <2>2. CASE Throws(p) \/ Dies(p) \/ \E u \in Uploads : Queue(p, u)
    BY <2>2, InvocationSteps
  <2>3. CASE WriteFailed(p)
    BY <2>3, WriteFailedStep
  <2> QED
    BY <1>4, <2>1, <2>2, <2>3 DEF ProcessorStep
<1>5. CASE UNCHANGED vars
  <2>1. RowsOK'
    BY <1>5 DEF IInv, RowsOK, vars
  <2>2. Noticed'
    BY <1>5 DEF IInv, Noticed, Live, Registered, vars
  <2> QED
    BY <1>5, <2>1, <2>2 DEF IInv, TypeOK, Busy, vars
<1> QED
  BY <1>1, <1>2, <1>3, <1>4, <1>5 DEF Next

LEMMA InvAlways == Spec => []IInv
BY InvInit, InvStep, PTL DEF Spec

\* Every table keeps its shape, whatever trigger, staff and processor write.
THEOREM TypeCorrect == Spec => []TypeOK
<1>1. IInv => TypeOK
  BY DEF IInv
<1> QED
  BY <1>1, InvAlways, PTL

\* No order of registration, segmentation, late analysis and trigger leaves a
\* job that says REGISTERED without the sources it stands for.
THEOREM RegistrationHolds == Spec => []RegistrationIsTrue
<1>1. IInv => RegistrationIsTrue
  BY DEF IInv, RowsOK, RowOK, Truth, RegistrationIsTrue
<1> QED
  BY <1>1, InvAlways, PTL

\* However many copies of a file arrive, before or after the case is opened,
\* of any two that are registered one was marked as a duplicate.
THEOREM DuplicatesNoticed == Spec => []DuplicatesAreNoticed
<1>1. IInv => DuplicatesAreNoticed
  <2> SUFFICES ASSUME IInv, NEW u \in Uploads, NEW v \in Uploads, u # v,
                      Doc[u].file = Doc[v].file, Registered(u), Registered(v)
               PROVE  job[u].duplicate \/ job[v].duplicate
    BY DEF DuplicatesAreNoticed
  <2>1. upload[u].inCase /\ upload[v].inCase
    BY DEF IInv, RowsOK, RowOK, Staged, Registered
  <2>2. Live(u) /\ Live(v)
    BY <2>1 DEF Live
  <2> QED
    BY <2>2 DEF IInv, Noticed
<1> QED
  BY <1>1, InvAlways, PTL

-----------------------------------------------------------------------------
(* What closed means.                                                      *)

Reopens(u) == job[u].status \in Closed /\ job'[u].status \notin Closed \cup {"FAILED"}

\* The actions of staff and edge function on one upload, by the status they
\* leave behind.
LEMMA StaffKeepsClosed ==
    ASSUME IInv, NEW u \in Uploads, StaffStep(u), NEW x \in Uploads
    PROVE  ~Reopens(x)
<1>1. job \in [Uploads -> Job] /\ upload \in [Uploads -> Upload]
  BY DEF IInv, TypeOK
<1>2. CASE ConfirmJob(u) \/ BatchRegister(u) \/ BatchFails(u)
           \/ (\E parts \in SUBSET Ranges(u) : ReplaceSegments(u, parts))
  <2>1. job[u].status \notin Closed
    BY <1>2 DEF ConfirmJob, BatchRegister, BatchFails, ReplaceSegments, Green, Open
  <2>2. x # u => job'[x] = job[x]
    BY <1>1, <1>2 DEF ConfirmJob, BatchRegister, RegisterWhole, BatchFails, ReplaceSegments
  <2> QED
    BY <2>1, <2>2 DEF Reopens
<1>3. CASE ConfirmSegments(u)
  <2>1. job[u].status \notin Closed
    BY <1>3 DEF ConfirmSegments, Open
  <2>2. x # u => job'[x] = job[x]
    BY <1>1, <1>3 DEF ConfirmSegments
  <2> QED
    BY <2>1, <2>2 DEF Reopens
<1>4. CASE MarkDuplicate(u)
  <2>1. PICK k : job' = [job EXCEPT ![u] = [k EXCEPT !.status = "RESOLVED_DUPLICATE"]]
                 /\ k \in Job
    <3> DEFINE r == [upload[u] EXCEPT !.status = "SUPERSEDED"]
               rows == [upload EXCEPT ![u].status = "SUPERSEDED"]
    <3>1. job[u] \in Job /\ rows[u] \in Upload
      BY <1>1 DEF Upload, UploadStatus
    <3>2. job' = [job EXCEPT ![u] = [Refreshed(u, job[u], rows, sources)
                                        EXCEPT !.status = "RESOLVED_DUPLICATE"]]
      BY <1>4 DEF MarkDuplicate
    <3> HIDE DEF rows
    <3>3. Refreshed(u, job[u], rows, sources) \in Job
      BY <3>1, RefreshedType
    <3> QED
      BY <3>2, <3>3
  <2>2. job'[u].status = "RESOLVED_DUPLICATE" /\ (x # u => job'[x] = job[x])
    BY <1>1, <2>1 DEF Job
  <2> QED
    BY <2>2 DEF Reopens, Closed
<1>5. CASE RegisterDirectly(u)
  <2> DEFINE rows == [upload EXCEPT ![u].source = TRUE, ![u].status = "INGESTED"]
             srcs == sources \cup {Whole(u)}
  <2>1. job[u] \in Job /\ rows[u] \in Upload /\ rows[u].source
    BY <1>1 DEF Upload, UploadStatus
  <2>2. job' = [job EXCEPT ![u] = Refreshed(u, job[u], rows, srcs)]
    BY <1>5, WriteOne DEF RegisterDirectly, IInv
  <2> HIDE DEF rows, srcs
  <2>3. Refreshed(u, job[u], rows, srcs).status = "REGISTERED"
    BY <2>1, RefreshedLinked
  <2>4. job'[u].status = "REGISTERED" /\ (x # u => job'[x] = job[x])
    BY <1>1, <2>2, <2>3
  <2> QED
    BY <2>4 DEF Reopens, Closed
<1> QED
  BY <1>2, <1>3, <1>4, <1>5 DEF StaffStep

LEMMA ProcessorKeepsClosed ==
    ASSUME IInv, NEW p \in Processors, ProcessorStep(p), NEW x \in Uploads
    PROVE  ~Reopens(x)
<1>1. job \in [Uploads -> Job]
  BY DEF IInv, TypeOK
<1>2. CASE Throws(p) \/ Dies(p) \/ \E u \in Uploads : Queue(p, u)
  BY <1>2 DEF Throws, Dies, Queue, Reopens
<1>3. CASE WriteFailed(p)
  <2>1. processor[p].of \in Uploads
    BY <1>3 DEF WriteFailed, IInv, Busy
  <2>2. x = processor[p].of => job'[x].status = "FAILED"
    BY <1>1, <1>3, <2>1 DEF WriteFailed, Job
  <2>3. x # processor[p].of => job'[x] = job[x]
    BY <1>1, <1>3 DEF WriteFailed
  <2> QED
    BY <2>2, <2>3 DEF Reopens
<1>4. CASE Apply(p) \/ ApplyUnanswered(p)
  <2>1. PICK packet, grade : Analysed(processor[p].of, packet, grade)
    BY <1>4 DEF Apply, ApplyUnanswered
  <2> DEFINE u == processor[p].of
  <2>2. \/ UNCHANGED job
        \/ job[u].status \notin Closed /\ \E j : job' = [job EXCEPT ![u] = j]
    <3> HIDE DEF u
    <3>1. CASE job[u].status \in Closed
      BY <2>1, <3>1 DEF Analysed, u
    <3>2. CASE job[u].status \notin Closed
      <4> DEFINE parts == Doc[u].parts
                 bundle == IF packet \/ Cardinality(parts) > 1
                           THEN "PROBABLE_BUNDLE" ELSE "SINGLE"
                 st == Disposition(job[u].duplicate, parts, bundle, grade)
                 j == [job[u] EXCEPT !.status = st, !.bundle = bundle, !.pages = Doc[u].pages]
      <4>1. job' = [job EXCEPT ![u].status = st, ![u].bundle = bundle, ![u].pages = Doc[u].pages]
        BY <2>1, <3>2 DEF Analysed, u
      <4> HIDE DEF st, bundle
      <4>2. job' = [job EXCEPT ![u] = j]
        BY <1>1, <4>1
      <4> QED
        BY <3>2, <4>2
    <3> QED
      BY <3>1, <3>2
  <2> HIDE DEF u
  <2>3. job'[x] = job[x] \/ (job[u].status \notin Closed /\ x = u)
    BY <1>1, <2>2
  <2> QED
    BY <2>3 DEF Reopens
<1> QED
  BY <1>2, <1>3, <1>4 DEF ProcessorStep

\* Nothing reopens a job once it is registered, resolved or rejected, except
\* the late failure that overwrites it.
THEOREM ClosedIsClosed == Spec => ClosedStaysClosed
<1>1. ASSUME IInv, Next, NEW x \in Uploads PROVE ~Reopens(x)
  <2>1. CASE OpenCase
    BY <1>1, <2>1, OpenCaseStep DEF Reopens
  <2>2. ASSUME NEW u \in Uploads, Receive(u) PROVE ~Reopens(x)
    <3>1. job[u].status \notin Closed
      BY <1>1, <2>2, ReceiveStep
    <3>2. x # u => job'[x] = job[x]
      BY <2>2 DEF Receive, Write
    <3> QED
      BY <3>1, <3>2 DEF Reopens
  <2>3. ASSUME NEW u \in Uploads, StaffStep(u) PROVE ~Reopens(x)
    BY <1>1, <2>3, StaffKeepsClosed
  <2>4. ASSUME NEW p \in Processors, ProcessorStep(p) PROVE ~Reopens(x)
    BY <1>1, <2>4, ProcessorKeepsClosed
  <2> QED
    BY <1>1, <2>1, <2>2, <2>3, <2>4 DEF Next
<1>2. IInv /\ [Next]_vars =>
        [\A u \in Uploads :
            job[u].status \in Closed => job'[u].status \in Closed \cup {"FAILED"}]_vars
  BY <1>1 DEF Reopens
<1> QED
  BY <1>2, InvAlways, PTL DEF Spec, ClosedStaysClosed

-----------------------------------------------------------------------------
(* What setting uploads aside loses, and what bundles escape review.  Both *)
(* turn on the opening of the case, which attaches the uploads of the      *)
(* intake form all at once and routes them by their names alone.           *)

\* Invocations and segments: an invocation is about an upload that arrived, and
\* outside the case an upload has at most the segments proposed for it.
SegmentsInv ==
    /\ \A p \in Processors :
          processor[p].pc \in {"reading", "failing"} => upload[processor[p].of].status # "NONE"
    /\ \A u \in Uploads :
          /\ IsFiniteSet(segments[u])
          /\ ~upload[u].inCase => segments[u] \in {{}, Proposed(Doc[u].parts)}
          /\ upload[u].status = "NONE" => segments[u] = {}

Original(u) == upload[u].inCase /\ ~job[u].duplicate

\* Two copies of the file of u were attached by the opening of the case.
Paired(u) ==
    \E v, w \in Early :
        /\ v # w /\ Doc[v].file = Doc[u].file /\ Doc[w].file = Doc[u].file
        /\ upload[v].inCase /\ upload[w].inCase

\* Every duplicate in the case is one of an upload there that is not marked, unless
\* two copies were attached together.
OriginalsStand ==
    \A u \in Uploads :
        job[u].duplicate =>
            /\ upload[u].inCase
            /\ \/ Paired(u)
               \/ \E v \in Uploads : Doc[v].file = Doc[u].file /\ Original(v)

\* What a step that is no arrival does to an upload.
Moves(u) ==
    /\ upload'[u].inCase = upload[u].inCase
    /\ upload[u].status # "NONE" => upload'[u].status # "NONE"
    /\ job'[u].duplicate = job[u].duplicate
    /\ \/ job'[u].status = job[u].status /\ segments'[u] = segments[u]
       \/ /\ job'[u].status \in Closed \cup {"EXCEPTION", "FAILED"}
          /\ segments'[u] = segments[u] \/ (upload[u].inCase /\ IsFiniteSet(segments'[u]))
       \/ /\ segments'[u] = Proposed(Doc[u].parts)
          /\ upload[u].status # "NONE"
          /\ Cardinality(Doc[u].parts) > 1 => job'[u].status = "EXCEPTION"

\* One row of each table changes.
LEMMA OneMoves ==
    ASSUME TypeOK, NEW u \in Uploads, NEW r \in Upload, NEW j \in Job, NEW g,
           upload' = [upload EXCEPT ![u] = r],
           job' = [job EXCEPT ![u] = j],
           segments' = [segments EXCEPT ![u] = g],
           r.inCase = upload[u].inCase,
           upload[u].status # "NONE" => r.status # "NONE",
           j.duplicate = job[u].duplicate,
           \/ /\ j.status \in Closed \cup {"EXCEPTION", "FAILED"}
              /\ g = segments[u] \/ (upload[u].inCase /\ IsFiniteSet(g))
           \/ /\ g = Proposed(Doc[u].parts)
              /\ upload[u].status # "NONE"
              /\ Cardinality(Doc[u].parts) > 1 => j.status = "EXCEPTION"
    PROVE  \A x \in Uploads : Moves(x)
<1> SUFFICES ASSUME NEW x \in Uploads PROVE Moves(x)
  OBVIOUS
<1>1. CASE x = u
  <2>1. upload'[u] = r /\ job'[u] = j /\ segments'[u] = g
    BY DEF TypeOK
  <2> QED
    BY <1>1, <2>1 DEF Moves
<1>2. CASE x # u
  <2>1. upload'[x] = upload[x] /\ job'[x] = job[x] /\ segments'[x] = segments[x]
    BY <1>2 DEF TypeOK
  <2> QED
    BY <2>1 DEF Moves
<1> QED
  BY <1>1, <1>2

\* The image of a finite set under a function.
LEMMA FiniteImage ==
    ASSUME NEW S, IsFiniteSet(S), NEW f
    PROVE  LET T == {f[x] : x \in S}
           IN IsFiniteSet(T) /\ Cardinality(T) <= Cardinality(S)
<1> DEFINE T == {f[x] : x \in S}
           g == [x \in S |-> f[x]]
<1>1. g \in Surjection(S, T)
  BY DEF Surjection
<1> HIDE DEF T, g
<1>2. IsFiniteSet(T) /\ Cardinality(T) <= Cardinality(S)
  BY <1>1, FS_Surjection
<1> QED
  BY <1>2 DEF T

\* As many proposals as parts.
LEMMA ProposedFinite ==
    ASSUME NEW parts, IsFiniteSet(parts)
    PROVE  /\ IsFiniteSet(Proposed(parts))
           /\ Cardinality(Proposed(parts)) > 1 => Cardinality(parts) > 1
<1> DEFINE f == [r \in parts |-> [pages |-> r, status |-> "PROPOSED"]]
           T == {f[r] : r \in parts}
<1>1. IsFiniteSet(T) /\ Cardinality(T) <= Cardinality(parts)
  BY FiniteImage
<1>2. Proposed(parts) = T
  BY DEF Proposed
<1> HIDE DEF T
<1>3. Cardinality(T) \in Nat /\ Cardinality(parts) \in Nat
  BY <1>1, FS_CardinalityType
<1> QED
  BY <1>1, <1>2, <1>3

\* The ranges of a file are finitely many.
LEMMA RangesFinite ==
    ASSUME NEW u \in Uploads, NEW parts \in SUBSET Ranges(u)
    PROVE  IsFiniteSet(parts)
<1>1. Doc[u].pages \in Nat
  BY IntakeAssumption
<1> DEFINE I == 1 .. Doc[u].pages + 1
<1>2. parts \in SUBSET (SUBSET I)
  BY <1>1 DEF Ranges
<1>3. IsFiniteSet(I)
  <2>1. 1 \in Int /\ Doc[u].pages + 1 \in Int
    BY <1>1
  <2> QED
    BY <2>1, FS_Interval
<1> HIDE DEF I
<1>4. IsFiniteSet(SUBSET I)
  BY <1>3, FS_SUBSET
<1> QED
  BY <1>2, <1>4, FS_Subset

LEMMA StaffMoves ==
    ASSUME IInv, SegmentsInv, NEW u \in Uploads, StaffStep(u)
    PROVE  \A x \in Uploads : Moves(x)
<1>1. /\ TypeOK /\ upload[u] \in Upload /\ job[u] \in Job /\ segments[u] \in SUBSET Segment
      /\ upload \in [Uploads -> Upload] /\ job \in [Uploads -> Job]
      /\ segments \in [Uploads -> SUBSET Segment]
  BY DEF IInv, TypeOK
<1>2. segments' = segments => segments' = [segments EXCEPT ![u] = segments[u]]
  BY <1>1
<1>3. upload' = upload => upload' = [upload EXCEPT ![u] = upload[u]]
  BY <1>1
<1>4. CASE ConfirmJob(u) \/ BatchRegister(u)
  <2> DEFINE r == [upload[u] EXCEPT !.source = TRUE,
                                    !.status = IF upload[u].source THEN @ ELSE "INGESTED"]
             j == [job[u] EXCEPT !.status = "REGISTERED", !.registered = TRUE]
  <2>1. /\ r \in Upload /\ r.inCase = upload[u].inCase
        /\ upload[u].status # "NONE" => r.status # "NONE"
    BY <1>1 DEF Upload, UploadStatus
  <2>2. j \in Job /\ j.status = "REGISTERED" /\ j.duplicate = job[u].duplicate
    BY <1>1 DEF Job, JobStatus, Closed
  <2>3. /\ upload' = [upload EXCEPT ![u] = r] /\ job' = [job EXCEPT ![u] = j]
        /\ segments' = segments
    BY <1>1, <1>4 DEF ConfirmJob, BatchRegister, RegisterWhole
  <2> HIDE DEF r, j
  <2>4. j.status \in Closed
    BY <2>2 DEF Closed
  <2> QED
    BY <1>1, <1>2, <2>1, <2>2, <2>3, <2>4, OneMoves
<1>5. CASE BatchFails(u)
  <2> DEFINE j == [job[u] EXCEPT !.status = "FAILED"]
  <2>1. j \in Job /\ j.status = "FAILED" /\ j.duplicate = job[u].duplicate
    BY <1>1 DEF Job, JobStatus
  <2>2. job' = [job EXCEPT ![u] = j] /\ segments' = segments /\ upload' = upload
    BY <1>1, <1>5 DEF BatchFails
  <2> HIDE DEF j
  <2> QED
    BY <1>1, <1>2, <1>3, <2>1, <2>2, OneMoves
<1>6. CASE RegisterDirectly(u)
  <2> DEFINE r == [upload[u] EXCEPT !.source = TRUE, !.status = "INGESTED"]
             rows == [upload EXCEPT ![u].source = TRUE, ![u].status = "INGESTED"]
             srcs == sources \cup {Whole(u)}
             j == Refreshed(u, job[u], rows, srcs)
  <2>1. /\ r \in Upload /\ r.inCase = upload[u].inCase /\ r.status # "NONE" /\ r.source
    BY <1>1 DEF Upload, UploadStatus
  <2>2. rows = [upload EXCEPT ![u] = r] /\ rows[u] = r /\ rows[u] \in Upload
    BY <1>1, <2>1
  <2>3. job' = [job EXCEPT ![u] = j] /\ upload' = rows /\ segments' = segments
    BY <1>1, <1>6, WriteOne DEF RegisterDirectly, Write
  <2> HIDE DEF r, rows, srcs
  <2>4. j \in Job
    BY <1>1, <2>1, <2>2, RefreshedType
  <2>5. j.status = "REGISTERED" /\ j.duplicate = job[u].duplicate
    <3>1. rows[u] \in Upload /\ rows[u].source
      BY <2>1, <2>2
    <3> QED
      BY <1>1, <3>1, RefreshedLinked
  <2> HIDE DEF j
  <2>6. j.status \in Closed
    BY <2>5 DEF Closed
  <2> QED
    BY <1>1, <1>2, <2>1, <2>2, <2>3, <2>4, <2>5, <2>6, OneMoves
<1>7. CASE MarkDuplicate(u)
  <2> DEFINE r == [upload[u] EXCEPT !.status = "SUPERSEDED"]
             rows == [upload EXCEPT ![u].status = "SUPERSEDED"]
             k == Refreshed(u, job[u], rows, sources)
             j == [k EXCEPT !.status = "RESOLVED_DUPLICATE"]
  <2>1. r \in Upload /\ r.inCase = upload[u].inCase /\ r.status = "SUPERSEDED"
    BY <1>1 DEF Upload, UploadStatus
  <2>2. rows = [upload EXCEPT ![u] = r] /\ rows[u] = r /\ rows[u] \in Upload
    BY <1>1, <2>1
  <2>3. job' = [job EXCEPT ![u] = j] /\ upload' = rows /\ segments' = segments
    BY <1>7 DEF MarkDuplicate
  <2> HIDE DEF r, rows
  <2>4. k \in Job
    BY <1>1, <2>1, <2>2, RefreshedType
  <2>5. k.duplicate = job[u].duplicate
    <3>1. rows[u] \in Upload /\ rows[u].status = "SUPERSEDED"
      BY <2>1, <2>2
    <3> QED
      BY <1>1, <3>1, RefreshedAside
  <2> HIDE DEF k
  <2>6. j \in Job /\ j.status = "RESOLVED_DUPLICATE" /\ j.duplicate = job[u].duplicate
    BY <2>4, <2>5 DEF Job, JobStatus, Closed
  <2> HIDE DEF j
  <2>7. j.status \in Closed
    BY <2>6 DEF Closed
  <2> QED
    BY <1>1, <1>2, <2>1, <2>2, <2>3, <2>6, <2>7, OneMoves
<1>8. ASSUME NEW parts \in SUBSET Ranges(u), ReplaceSegments(u, parts)
      PROVE  \A x \in Uploads : Moves(x)
  <2> DEFINE j == [job[u] EXCEPT !.status = "EXCEPTION", !.bundle = "PROBABLE_BUNDLE"]
             g == Proposed(parts)
  <2>1. j \in Job /\ j.status = "EXCEPTION" /\ j.duplicate = job[u].duplicate
    BY <1>1 DEF Job, JobStatus, Grade, Bundle
  <2>2. /\ job' = [job EXCEPT ![u] = j] /\ segments' = [segments EXCEPT ![u] = g]
        /\ upload' = upload /\ upload[u].inCase
    BY <1>1, <1>8 DEF ReplaceSegments, Open
  <2>3. IsFiniteSet(g)
    BY <1>8, RangesFinite, ProposedFinite
  <2> HIDE DEF j, g
  <2> QED
    BY <1>1, <1>3, <2>1, <2>2, <2>3, OneMoves
<1>9. CASE ConfirmSegments(u)
  <2> DEFINE open == {g.pages : g \in {g \in segments[u] : g.status = "PROPOSED"}}
             r == [upload[u] EXCEPT !.status = "INGESTED"]
             rows == [upload EXCEPT ![u].status = "INGESTED"]
             done == [job[u] EXCEPT !.status = "REGISTERED", !.registered = FALSE,
                                    !.bundle = "BUNDLE"]
             srcs == sources \cup {[of |-> u, pages |-> x] : x \in open}
             j == Refreshed(u, done, rows, srcs)
             segs == {[g EXCEPT !.status = "REGISTERED"] : g \in segments[u]}
  <2>1. r \in Upload /\ r.inCase = upload[u].inCase /\ r.status = "INGESTED"
    BY <1>1 DEF Upload, UploadStatus
  <2>2. rows = [upload EXCEPT ![u] = r] /\ rows[u] = r /\ rows[u] \in Upload
    BY <1>1, <2>1
  <2>3. /\ done \in Job /\ done.status = "REGISTERED" /\ ~done.registered
        /\ done.duplicate = job[u].duplicate
    BY <1>1 DEF Job, JobStatus, Closed, Bundle
  <2>4. /\ upload' = rows /\ job' = [job EXCEPT ![u] = j]
        /\ segments' = [segments EXCEPT ![u] = segs]
        /\ upload[u].inCase /\ Cardinality(open) >= 2
    BY <1>1, <1>9 DEF ConfirmSegments, Open
  <2>5. IsFiniteSet(segments[u])
    BY DEF SegmentsInv
  <2>6. Cardinality(segments[u]) > 1
    <3> DEFINE P == {g \in segments[u] : g.status = "PROPOSED"}
               f == [g \in P |-> g.pages]
    <3>1. IsFiniteSet(P) /\ Cardinality(P) <= Cardinality(segments[u])
      BY <2>5, FS_Subset
    <3>2. open = {f[g] : g \in P}
      OBVIOUS
    <3> HIDE DEF P, f, open
    <3>3. IsFiniteSet(open) /\ Cardinality(open) <= Cardinality(P)
      BY <3>1, <3>2, FiniteImage
    <3>4. /\ Cardinality(open) \in Nat /\ Cardinality(P) \in Nat
          /\ Cardinality(segments[u]) \in Nat
      BY <2>5, <3>1, <3>3, FS_CardinalityType
    <3> QED
      BY <2>4, <3>1, <3>3, <3>4
  <2>7. IsFiniteSet(segs)
    <3> DEFINE f == [g \in segments[u] |-> [g EXCEPT !.status = "REGISTERED"]]
    <3>1. segs = {f[g] : g \in segments[u]}
      OBVIOUS
    <3> HIDE DEF segs, f
    <3> QED
      BY <2>5, <3>1, FiniteImage
  <2> HIDE DEF r, rows, done, srcs, segs, open
  <2>8. j = done
    BY <2>1, <2>2, <2>3, <2>6 DEF Refreshed
  <2> HIDE DEF j
  <2>9. done.status \in Closed
    BY <2>3 DEF Closed
  <2> QED
    BY <1>1, <2>1, <2>2, <2>3, <2>4, <2>7, <2>8, <2>9, OneMoves
<1> QED
  BY <1>4, <1>5, <1>6, <1>7, <1>8, <1>9 DEF StaffStep

LEMMA ProcessorMoves ==
    ASSUME IInv, SegmentsInv, NEW p \in Processors, ProcessorStep(p)
    PROVE  \A x \in Uploads : Moves(x)
<1>1. /\ TypeOK /\ upload \in [Uploads -> Upload] /\ job \in [Uploads -> Job]
      /\ segments \in [Uploads -> SUBSET Segment]
  BY DEF IInv, TypeOK
<1>2. CASE UNCHANGED <<upload, job, segments>>
  BY <1>2 DEF Moves
<1>3. CASE WriteFailed(p)
  <2>1. PICK u \in Uploads : u = processor[p].of
    BY <1>3 DEF IInv, Busy, WriteFailed
  <2> DEFINE j == [job[u] EXCEPT !.status = "FAILED"]
  <2>2. j \in Job /\ j.status = "FAILED" /\ j.duplicate = job[u].duplicate
    BY <1>1 DEF Job, JobStatus
  <2>3. /\ job' = [job EXCEPT ![u] = j]
        /\ segments' = [segments EXCEPT ![u] = segments[u]]
        /\ upload' = [upload EXCEPT ![u] = upload[u]]
    BY <1>1, <1>3, <2>1 DEF WriteFailed
  <2>4. upload[u] \in Upload
    BY <1>1
  <2> HIDE DEF j
  <2> QED
    BY <1>1, <2>2, <2>3, <2>4, OneMoves
<1>4. CASE Apply(p) \/ ApplyUnanswered(p)
  <2>1. PICK u \in Uploads : u = processor[p].of
    BY <1>4 DEF IInv, Busy, Apply, ApplyUnanswered
  <2>2. upload[u].status # "NONE" /\ upload' = upload
    BY <1>4, <2>1 DEF SegmentsInv, Apply, ApplyUnanswered
  <2>3. PICK packet \in BOOLEAN, grade \in Grade : Analysed(u, packet, grade)
    <3>1. Doc[u].read \in Grade /\ processor[p].packet \in BOOLEAN
      BY <1>1, IntakeAssumption DEF TypeOK, Processor
    <3> QED
      BY <1>4, <2>1, <3>1 DEF Apply, ApplyUnanswered, Grade
  <2>4. CASE job[u].status \notin Closed
    <3> DEFINE parts == Doc[u].parts
               bundle == IF packet \/ Cardinality(parts) > 1
                         THEN "PROBABLE_BUNDLE" ELSE "SINGLE"
               st == Disposition(job[u].duplicate, parts, bundle, grade)
               j == [job[u] EXCEPT !.status = st, !.bundle = bundle, !.pages = Doc[u].pages]
               g == Proposed(parts)
    <3>1. st \in Grade /\ (Cardinality(parts) > 1 => st = "EXCEPTION")
      BY DEF Disposition, Grade
    <3>2. bundle \in Bundle /\ Doc[u].pages \in Nat
      BY IntakeAssumption DEF Bundle
    <3>3. job' = [job EXCEPT ![u] = j] /\ segments' = [segments EXCEPT ![u] = g]
      BY <1>1, <2>3, <2>4 DEF Analysed
    <3> HIDE DEF bundle, st
    <3>4. j \in Job /\ j.status = st /\ j.duplicate = job[u].duplicate
      BY <1>1, <3>1, <3>2 DEF Job, JobStatus
    <3>5. upload' = [upload EXCEPT ![u] = upload[u]] /\ upload[u] \in Upload
      BY <1>1, <2>2
    <3> HIDE DEF j
    <3> QED
      BY <1>1, <2>2, <3>1, <3>3, <3>4, <3>5, OneMoves
  <2> QED
    BY <1>2, <2>2, <2>3, <2>4 DEF Analysed
<1> QED
  BY <1>2, <1>3, <1>4 DEF ProcessorStep, Throws, Dies, Queue

\* Every step is an arrival or moves every upload.
Arrives ==
    \E rows : \E S \in SUBSET Uploads :
        /\ Arrival(S, rows)
        /\ \A x, y \in S : x # y => {x, y} \subseteq Early /\ rows[x].inCase /\ rows[y].inCase
        /\ \A x \in S : \/ upload[x].status = "NONE"
                        \/ x \in Early /\ rows[x].inCase

LEMMA StepEffect ==
    ASSUME IInv, SegmentsInv, [Next]_vars
    PROVE  Arrives \/ \A x \in Uploads : Moves(x)
<1>1. CASE OpenCase
  <2>1. PICK rows : \E S \in SUBSET Early :
                       /\ Arrival(S, rows)
                       /\ \A x \in S : upload[x].status # "NONE" /\ rows[x].inCase
    BY <1>1, OpenCaseArrives
  <2> QED
    BY <2>1, IntakeAssumption DEF Arrives
<1>2. ASSUME NEW u \in Uploads, Receive(u) PROVE Arrives
  <2>1. PICK rows : Arrival({u}, rows)
    BY <1>2, ReceiveArrives
  <2>2. upload[u].status = "NONE"
    BY <1>2 DEF Receive
  <2> QED
    BY <2>1, <2>2 DEF Arrives
<1>3. CASE UNCHANGED vars
  BY <1>3 DEF vars, Moves
<1> QED
  BY <1>1, <1>2, <1>3, StaffMoves, ProcessorMoves DEF Next

LEMMA SegmentsStep ==
    ASSUME IInv, SegmentsInv, [Next]_vars
    PROVE  SegmentsInv'
<1>1. \A u \in Uploads : upload[u].status # "NONE" => upload'[u].status # "NONE"
  <2>1. CASE Arrives
    BY <2>1 DEF Arrives, Arrival, Write
  <2>2. CASE \A x \in Uploads : Moves(x)
    BY <2>2 DEF Moves
  <2> QED
    BY <2>1, <2>2, StepEffect
<1>2. \A p \in Processors :
         processor'[p].pc \in {"reading", "failing"} => upload'[processor'[p].of].status # "NONE"
  <2> SUFFICES ASSUME NEW q \in Processors, processor'[q].pc \in {"reading", "failing"}
               PROVE  upload'[processor'[q].of].status # "NONE"
    OBVIOUS
  <2>1. processor \in [Processors -> Processor]
    BY DEF IInv, TypeOK
  <2>2. \/ processor[q].pc \in {"reading", "failing"} /\ processor'[q].of = processor[q].of
        \/ /\ processor'[q].of \in Uploads
           /\ upload[processor'[q].of].status # "NONE"
    <3>1. CASE processor' = processor
      BY <3>1
    <3>2. ASSUME NEW p \in Processors, NEW u \in Uploads, Queue(p, u)
          PROVE  \/ processor[q].pc \in {"reading", "failing"} /\ processor'[q].of = processor[q].of
                 \/ /\ processor'[q].of \in Uploads
                    /\ upload[processor'[q].of].status # "NONE"
      BY <2>1, <3>2 DEF Queue
    <3>3. ASSUME NEW p \in Processors, NEW k, processor' = [processor EXCEPT ![p] = k],
                 processor[p].pc \in {"reading", "failing"}, k.pc = "over" \/ k.of = processor[p].of
          PROVE  processor[q].pc \in {"reading", "failing"} /\ processor'[q].of = processor[q].of
      BY <2>1, <3>3
    <3>4. ASSUME NEW p \in Processors, ProcessorStep(p), ~\E u \in Uploads : Queue(p, u)
          PROVE  processor[q].pc \in {"reading", "failing"} /\ processor'[q].of = processor[q].of
      <4>1. CASE processor' = [processor EXCEPT ![p] = Over] /\ processor[p].pc \in {"reading", "failing"}
        <5>1. Over.pc = "over"
          BY DEF Over, Idle
        <5> QED
          BY <3>3, <4>1, <5>1
      <4>2. CASE Fault(p, "failing") /\ processor[p].pc \in {"reading", "failing"}
        <5> DEFINE k == [processor[p] EXCEPT !.pc = "failing"]
        <5>1. processor' = [processor EXCEPT ![p] = k] /\ k.of = processor[p].of
          BY <2>1, <4>2 DEF Fault, Processor
        <5> HIDE DEF k
        <5> QED
          BY <3>3, <4>2, <5>1
      <4> QED
        BY <3>4, <4>1, <4>2 DEF ProcessorStep, Apply, Throws, ApplyUnanswered, WriteFailed, Dies
    <3>5. processor' = processor \/ \E p \in Processors : ProcessorStep(p)
      BY DEF Next, OpenCase, Receive, StaffStep, ConfirmJob, RegisterDirectly, BatchRegister,
             BatchFails, MarkDuplicate, ConfirmSegments, ReplaceSegments, vars
    <3> QED
      BY <3>1, <3>2, <3>4, <3>5
  <2>3. upload[processor'[q].of].status # "NONE" /\ processor'[q].of \in Uploads
    BY <2>2 DEF SegmentsInv, IInv, Busy
  <2> QED
    BY <1>1, <2>3
<1>3. ASSUME NEW u \in Uploads
      PROVE  /\ IsFiniteSet(segments'[u])
             /\ ~upload'[u].inCase => segments'[u] \in {{}, Proposed(Doc[u].parts)}
             /\ upload'[u].status = "NONE" => segments'[u] = {}
  <2>1. CASE Arrives
    <3>1. segments' = segments /\ (upload'[u].inCase \/ ~upload[u].inCase)
          /\ (upload'[u].status # "NONE" \/ upload[u].status = "NONE")
      BY <2>1 DEF Arrives, Arrival, Write
    <3> QED
      BY <3>1 DEF SegmentsInv
  <2>2. CASE Moves(u)
    <3>1. IsFiniteSet(Proposed(Doc[u].parts))
      BY IntakeAssumption, ProposedFinite
    <3> QED
      BY <1>1, <2>2, <3>1 DEF Moves, SegmentsInv, IInv, RowsOK, RowOK
  <2> QED
    BY <2>1, <2>2, StepEffect
<1> QED
  BY <1>2, <1>3 DEF SegmentsInv

LEMMA SegmentsAlways == Spec => []SegmentsInv
<1>1. Init => SegmentsInv
  BY FS_EmptySet DEF Init, Idle, SegmentsInv
<1>2. IInv /\ SegmentsInv /\ [Next]_vars => SegmentsInv'
  BY SegmentsStep
<1> QED
  BY <1>1, <1>2, InvAlways, PTL DEF Spec

\* What the trigger does to an upload that arrives or enters its case.
LEMMA ArrivalEffect ==
    ASSUME IInv, NEW S, NEW rows, Arrival(S, rows)
    PROVE  /\ S \in SUBSET Uploads /\ upload' = rows /\ segments' = segments
           /\ \A x \in Uploads \ S : upload'[x] = upload[x] /\ job'[x] = job[x]
           /\ \A x \in S :
                 /\ ~upload[x].inCase
                 /\ job'[x].duplicate = (rows[x].inCase /\ HasDuplicate(x, rows, sources))
                 /\ rows[x].inCase /\ (Doc[x].packet \/ Doc[x].named = "EXCEPTION") =>
                       job'[x].status = "EXCEPTION"
<1>1. /\ S \in SUBSET Uploads /\ rows \in [Uploads -> Upload]
      /\ upload' = rows /\ segments' = segments
      /\ \A x \in Uploads \ S : rows[x] = upload[x] /\ job'[x] = job[x]
      /\ \A x \in S : /\ ~upload[x].inCase
                      /\ rows[x].status = "RECEIVED" /\ ~rows[x].source
                      /\ job'[x] = Refreshed(x, job[x], rows, sources)
  BY DEF Arrival, Write
<1>2. ASSUME NEW x \in S
      PROVE  /\ job'[x].duplicate = (rows[x].inCase /\ HasDuplicate(x, rows, sources))
             /\ rows[x].inCase /\ (Doc[x].packet \/ Doc[x].named = "EXCEPTION") =>
                   job'[x].status = "EXCEPTION"
  <2>1. x \in Uploads /\ job[x] \in Job /\ rows[x] \in Upload
    BY <1>1 DEF IInv, TypeOK
  <2>2. job[x].status \notin Closed
    BY <1>1, <2>1 DEF IInv, RowsOK, RowOK, Staged
  <2>3. /\ Refreshed(x, job[x], rows, sources).duplicate =
              (rows[x].inCase /\ HasDuplicate(x, rows, sources))
        /\ rows[x].inCase /\ (Doc[x].packet \/ Doc[x].named = "EXCEPTION") =>
              Refreshed(x, job[x], rows, sources).status = "EXCEPTION"
    BY <1>1, <2>1, <2>2, RefreshedFresh
  <2>4. job'[x] = Refreshed(x, job[x], rows, sources)
    BY <1>1
  <2> QED
    BY <2>3, <2>4, Zenon
<1> QED
  BY <1>1, <1>2

LEMMA OriginalsStep ==
    ASSUME IInv, SegmentsInv, OriginalsStand, [Next]_vars
    PROVE  OriginalsStand'
<1>1. CASE \A x \in Uploads : Moves(x)
  <2>1. \A x : Paired(x) => Paired(x)'
    BY <1>1, IntakeAssumption DEF Moves, Paired
  <2> QED
    BY <1>1, <2>1 DEF Moves, OriginalsStand, Original
<1>2. CASE Arrives
  <2>1. PICK rows : \E S \in SUBSET Uploads :
                       /\ Arrival(S, rows)
                       /\ \A x, y \in S : x # y => /\ {x, y} \subseteq Early
                                                 /\ rows[x].inCase /\ rows[y].inCase
    BY <1>2 DEF Arrives
  <2>2. PICK S \in SUBSET Uploads :
           /\ Arrival(S, rows)
           /\ \A x, y \in S : x # y => /\ {x, y} \subseteq Early
                                     /\ rows[x].inCase /\ rows[y].inCase
    BY <2>1
  <2>3. /\ upload' = rows
        /\ \A x \in Uploads \ S : upload'[x] = upload[x] /\ job'[x] = job[x]
        /\ \A x \in S :
              /\ ~upload[x].inCase
              /\ job'[x].duplicate = (rows[x].inCase /\ HasDuplicate(x, rows, sources))
    BY <2>2, ArrivalEffect
  <2> DEFINE Safe(y) == \/ Paired(y)'
                        \/ \E v \in Uploads : Doc[v].file = Doc[y].file /\ Original(v)'
  <2>4. ASSUME NEW y \in Uploads, upload[y].inCase
        PROVE  Safe(y)
    <3>1. CASE Paired(y)
      <4>1. PICK v \in Early, w \in Early :
               /\ v # w /\ Doc[v].file = Doc[y].file /\ Doc[w].file = Doc[y].file
               /\ upload[v].inCase /\ upload[w].inCase
        BY <3>1 DEF Paired
      <4>2. {v, w} \subseteq Uploads \ S
        BY <2>3, <4>1, IntakeAssumption
      <4>3. upload'[v].inCase /\ upload'[w].inCase
        BY <2>3, <4>1, <4>2
      <4> QED
        BY <4>1, <4>3 DEF Paired
    <3>2. CASE ~Paired(y)
      <4>1. PICK v \in Uploads : Doc[v].file = Doc[y].file /\ Original(v)
        BY <2>4, <3>2 DEF OriginalsStand, Original
      <4>2. v \notin S
        BY <2>3, <4>1 DEF Original
      <4> QED
        BY <2>3, <4>1, <4>2 DEF Original
    <3> QED
      BY <3>1, <3>2
  <2>5. ASSUME NEW x \in Uploads, NEW y \in Uploads, Doc[x].file = Doc[y].file, Safe(y)
        PROVE  Safe(x)
    BY <2>5 DEF Paired
  <2> SUFFICES ASSUME NEW x \in Uploads, job'[x].duplicate
               PROVE  upload'[x].inCase /\ Safe(x)
    BY DEF OriginalsStand
  <2> HIDE DEF Safe
  <2>6. CASE x \notin S
    BY <2>3, <2>4, <2>6 DEF OriginalsStand
  <2>7. CASE x \in S
    <3>1. rows[x].inCase /\ HasDuplicate(x, rows, sources)
      BY <2>3, <2>7
    <3>2. CASE \E s \in sources : Doc[s.of].file = Doc[x].file
      <4>1. PICK s \in sources : Doc[s.of].file = Doc[x].file
        BY <3>2
      <4>2. s.of \in Uploads
        BY DEF IInv, TypeOK, Source
      <4>3. upload[s.of].inCase
        BY <4>2 DEF IInv, RowsOK, RowOK, Staged
      <4> QED
        BY <2>3, <2>4, <2>5, <3>1, <4>1, <4>2, <4>3
    <3>3. CASE \E y \in Uploads \ {x} : rows[y].inCase /\ Doc[y].file = Doc[x].file
      <4>1. PICK y \in Uploads \ {x} : rows[y].inCase /\ Doc[y].file = Doc[x].file
        BY <3>3
      <4>2. CASE y \in S
        <5>1. {x, y} \subseteq Early /\ x # y
          BY <2>2, <2>7, <4>1, <4>2
        <5>2. Paired(x)'
          BY <2>3, <3>1, <4>1, <5>1 DEF Paired
        <5> QED
          BY <2>3, <3>1, <5>2 DEF Safe
      <4>3. CASE y \notin S
        <5>1. upload[y].inCase
          BY <2>3, <4>1, <4>3
        <5> QED
          BY <2>3, <2>4, <2>5, <3>1, <4>1, <5>1
      <4> QED
        BY <4>2, <4>3
    <3> QED
      BY <3>1, <3>2, <3>3 DEF HasDuplicate
  <2> QED
    BY <2>6, <2>7
<1> QED
  BY <1>1, <1>2, StepEffect

\* Setting uploads aside as duplicates loses a file only if two copies of it came with
\* the intake form and both were dismissed; otherwise an upload of the file that was
\* never marked remains, however many copies arrive and in whatever order.
THEOREM NoFileIsLost == Spec => []FilesSurvive
<1>1. Init => OriginalsStand
  BY DEF Init, OriginalsStand
<1>2. IInv /\ SegmentsInv /\ OriginalsStand /\ [Next]_vars => OriginalsStand'
  BY OriginalsStep
<1>3. IInv /\ OriginalsStand => FilesSurvive
  <2> SUFFICES ASSUME IInv, OriginalsStand, NEW u \in Uploads,
                      upload[u].status = "SUPERSEDED",
                      \A v \in Uploads :
                         Doc[v].file = Doc[u].file =>
                            upload[v].status \notin {"RECEIVED", "INGESTED"}
               PROVE  \E v, w \in Early :
                  /\ v # w /\ Doc[v].file = Doc[u].file /\ Doc[w].file = Doc[u].file
                  /\ upload[v].status = "SUPERSEDED" /\ upload[w].status = "SUPERSEDED"
    BY DEF FilesSurvive
  <2>1. job[u].duplicate
    BY DEF IInv, RowsOK, RowOK
  <2>2. ASSUME NEW v \in Uploads, Doc[v].file = Doc[u].file, upload[v].inCase
        PROVE  upload[v].status = "SUPERSEDED" /\ job[v].duplicate
    BY <2>2 DEF IInv, TypeOK, Upload, UploadStatus, RowsOK, RowOK
  <2>3. Paired(u)
    BY <2>1, <2>2 DEF OriginalsStand, Original
  <2> QED
    BY <2>2, <2>3, IntakeAssumption DEF Paired
<1> QED
  BY <1>1, <1>2, <1>3, InvAlways, SegmentsAlways, PTL DEF Spec

LEMMA BundlesStep ==
    ASSUME IInv, SegmentsInv, [Next]_vars, NEW u \in Uploads, Slipped(u)', ~Slipped(u)
    PROVE  upload'[u].inCase /\ ~upload[u].inCase
<1>1. \A x \in Uploads : job[x].status \in JobStatus /\ job'[x].status \in JobStatus
  BY InvStep DEF IInv, TypeOK, Job
<1>2. ASSUME NEW st \in JobStatus
      PROVE  Route(st) = "RED" <=> st \in {"EXCEPTION", "FAILED"}
  BY DEF Route, JobStatus, Grade, Closed
<1>3. IsFiniteSet(Doc[u].parts)
      /\ (Cardinality(Proposed(Doc[u].parts)) > 1 => Cardinality(Doc[u].parts) > 1)
  BY IntakeAssumption, ProposedFinite
<1>4. /\ job'[u].status \notin Closed \cup {"EXCEPTION", "FAILED"}
      /\ Cardinality(segments'[u]) > 1
      /\ job[u].status \notin Closed /\ Cardinality(segments[u]) > 1 =>
            job[u].status \in {"EXCEPTION", "FAILED"}
  BY <1>1, <1>2 DEF Slipped
<1>5. CASE Moves(u)
  BY <1>3, <1>4, <1>5 DEF Moves
<1>6. CASE Arrives
  <2>1. PICK rows : \E S \in SUBSET Uploads :
                       /\ Arrival(S, rows)
                       /\ \A x \in S : \/ upload[x].status = "NONE"
                                       \/ x \in Early /\ rows[x].inCase
    BY <1>6 DEF Arrives
  <2>2. PICK S \in SUBSET Uploads :
           /\ Arrival(S, rows)
           /\ \A x \in S : \/ upload[x].status = "NONE"
                           \/ x \in Early /\ rows[x].inCase
    BY <2>1
  <2>3. /\ upload' = rows /\ segments' = segments
        /\ \A x \in Uploads \ S : job'[x] = job[x]
        /\ \A x \in S : ~upload[x].inCase
    BY <2>2, ArrivalEffect
  <2>4. u \in S
    BY <1>4, <2>3
  <2>5. segments[u] # {}
    <3>1. Cardinality({}) = 0 /\ Cardinality(segments[u]) > 1
      BY <1>4, <2>3, FS_EmptySet
    <3> QED
      BY <3>1
  <2> QED
    BY <2>2, <2>3, <2>4, <2>5 DEF SegmentsInv
<1> QED
  BY <1>5, <1>6, StepEffect

\* A file found to hold several documents waits for a human until it is settled; only
\* its attachment to the case, when that is opened, lets it slip past.
THEOREM BundlesReviewed == Spec => BundlesStayRed
<1>1. IInv /\ SegmentsInv /\ [Next]_vars =>
         [\A u \in Uploads :
             Slipped(u)' /\ ~Slipped(u) => upload'[u].inCase /\ ~upload[u].inCase]_vars
  BY BundlesStep
<1> QED
  BY <1>1, InvAlways, SegmentsAlways, PTL DEF Spec, BundlesStayRed
=============================================================================
