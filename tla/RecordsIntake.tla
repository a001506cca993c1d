--------------------------- MODULE RecordsIntake ---------------------------
(***************************************************************************)
(* Records intake: an upload becomes one canonical source, several (one    *)
(* per document of a bundle), or is set aside.  Four kinds of actor meet   *)
(* here.  A database trigger derives the intake job of an upload whenever  *)
(* the upload's row changes; the edge function record-intake-process reads *)
(* the file for as long as that takes and applies what it found; staff     *)
(* review, split, register or dismiss; and the opening of a case attaches  *)
(* the uploads that came with the intake form.  Every database function    *)
(* locks the job and runs in one transaction, so it is one action; the     *)
(* edge function is several requests, so it is several.                    *)
(*                                                                         *)
(* What the text of a file is never matters, only what it leads to:        *)
(* Doc[u] is what there is to find out about upload u.                     *)
(***************************************************************************)
EXTENDS Naturals, FiniteSets

CONSTANTS
    Uploads,     \* upload ids
    Processors,  \* invocations of the edge function
    Files,       \* contents, as their hashes tell them apart
    Doc,         \* what each upload holds, see below
    Early,       \* the uploads sent with the intake form, before the case
    MaxFaults    \* failures of the edge function and of the batch

\* The routes of classifications: by confidence, never by content.
Grade == {"AUTO_REGISTER_READY", "NEEDS_CONFIRMATION", "EXCEPTION"}

(***************************************************************************)
(* file: what the hash identifies; pages: the page count the processor     *)
(* finds, 0 if the type has none; parts: the documents it proposes to      *)
(* split the file into; named, packet: how the file name alone is graded,  *)
(* and whether it announces a bundle; read: the grade of the text.         *)
(***************************************************************************)
ASSUME IntakeAssumption ==
    /\ MaxFaults \in Nat
    /\ Early \subseteq Uploads
    /\ Doc \in [Uploads -> [file : Files, pages : Nat, parts : SUBSET (SUBSET Nat),
                            named : Grade, packet : BOOLEAN, read : Grade]]
    /\ \A u \in Uploads : IsFiniteSet(Doc[u].parts)
    /\ \A u, v \in Uploads :
        Doc[u].file = Doc[v].file =>
            Doc[u].pages = Doc[v].pages /\ Doc[u].parts = Doc[v].parts

VARIABLES
    upload,     \* upload_records: status, in a case, linked to a source
    job,        \* record_intake_jobs
    segments,   \* record_intake_segments of the upload's job
    sources,    \* registry.sources, as pairs of upload and pages
    processor,  \* invocations: not begun, running, over
    caseOpen,   \* the intake has its case
    faults
vars == <<upload, job, segments, sources, processor, caseOpen, faults>>

UploadStatus == {"NONE", "RECEIVED", "INGESTED", "SUPERSEDED", "REJECTED"}
Closed == {"REGISTERED", "RESOLVED_DUPLICATE", "REJECTED"}
JobStatus == Grade \cup Closed \cup {"NONE", "WAITING_FOR_CASE", "FAILED"}
Bundle == {"SINGLE", "PROBABLE_BUNDLE", "BUNDLE"}

\* One page range: a page beyond the last is not excluded by any check.
Ranges(u) ==
    {a .. b : a \in 1 .. Doc[u].pages + 1, b \in 1 .. Doc[u].pages + 1} \ {{}}

Upload == [status : UploadStatus, inCase : BOOLEAN, source : BOOLEAN]
Job == [status : JobStatus, duplicate : BOOLEAN, bundle : Bundle,
        pages : Nat, registered : BOOLEAN]
Segment == [pages : SUBSET Nat, status : {"PROPOSED", "REGISTERED"}]
Source == [of : Uploads, pages : SUBSET Nat]
Processor == [pc : {"idle", "reading", "failing", "over"},
              of : Uploads \cup {"nothing"}, packet : BOOLEAN]

\* A source registered from the whole upload names no pages.
Whole(u) == [of |-> u, pages |-> {}]

\* The colour of a job.
Route(status) ==
    CASE status \in {"AUTO_REGISTER_READY", "REGISTERED"} -> "GREEN"
      [] status = "NEEDS_CONFIRMATION" -> "AMBER"
      [] status \in {"EXCEPTION", "FAILED"} -> "RED"
      [] OTHER -> "NONE"

TypeOK ==
    /\ upload \in [Uploads -> Upload]
    /\ job \in [Uploads -> Job]
    /\ segments \in [Uploads -> SUBSET Segment]
    /\ sources \subseteq Source
    /\ processor \in [Processors -> Processor]
    /\ caseOpen \in BOOLEAN
    /\ faults \in 0 .. MaxFaults

Idle == [pc |-> "idle", of |-> "nothing", packet |-> FALSE]
Over == [Idle EXCEPT !.pc = "over"]

Init ==
    /\ upload = [u \in Uploads |-> [status |-> "NONE", inCase |-> FALSE, source |-> FALSE]]
    /\ job = [u \in Uploads |-> [status |-> "NONE", duplicate |-> FALSE,
                                 bundle |-> "SINGLE", pages |-> 0, registered |-> FALSE]]
    /\ segments = [u \in Uploads |-> {}]
    /\ sources = {}
    /\ processor = [p \in Processors |-> Idle]
    /\ caseOpen = FALSE
    /\ faults = 0

-----------------------------------------------------------------------------
(* The trigger on upload_records.                                          *)

\* Mutant: only registered sources count, not uploads under way.
HasDuplicateSource(u, rows, srcs) ==
    \E s \in srcs : Doc[s.of].file = Doc[u].file

\* An active source, or else a live upload, of the same case holds the file.
HasDuplicate(u, rows, srcs) ==
    \/ \E s \in srcs : Doc[s.of].file = Doc[u].file
    \/ \E x \in Uploads \ {u} :
        /\ rows[x].inCase
        /\ Doc[x].file = Doc[u].file
        /\ rows[x].status \notin {"NONE", "REJECTED", "SUPERSEDED"}

\* Mutant: the exception code in place of the status.
TriagedByCode(u, duplicate) ==
    IF duplicate THEN "EXACT_DUPLICATE" ELSE Doc[u].named

\* How the file name and the duplicates alone route a job.
Triaged(u, duplicate) ==
    IF duplicate \/ Doc[u].packet THEN "EXCEPTION" ELSE Doc[u].named

\* refresh_record_intake_job_v1 for the row of u as rows has it.  The page
\* count and the segments of the job are left alone.
Refreshed(u, j, rows, srcs) ==
    LET row == rows[u]
        duplicate == row.inCase /\ HasDuplicate(u, rows, srcs)
    IN IF row.status = "INGESTED" /\ j.status = "REGISTERED"
            /\ ~j.registered /\ Cardinality(segments[u]) > 1 THEN j
       ELSE IF row.source THEN [j EXCEPT !.status = "REGISTERED", !.registered = TRUE]
       ELSE IF row.status = "REJECTED" THEN [j EXCEPT !.status = "REJECTED"]
       ELSE IF row.status = "SUPERSEDED" THEN [j EXCEPT !.status = "RESOLVED_DUPLICATE"]
       ELSE [j EXCEPT !.status = IF j.status = "REGISTERED" THEN @
                                 ELSE IF row.inCase THEN Triaged(u, duplicate)
                                 ELSE "WAITING_FOR_CASE",
                      !.duplicate = duplicate,
                      !.bundle = IF Doc[u].packet THEN "PROBABLE_BUNDLE" ELSE "SINGLE"]

\* The rows of S change to rows, and the trigger fires for each of them.
Write(S, rows, srcs) ==
    /\ upload' = rows
    /\ job' = [u \in Uploads |-> IF u \in S THEN Refreshed(u, job[u], rows, srcs) ELSE job[u]]
    /\ sources' = srcs

\* The upload form: to the case, or to the intake, which may have its case
\* by then.
Receive(u) ==
    /\ upload[u].status = "NONE"
    /\ Write({u}, [upload EXCEPT ![u].status = "RECEIVED", ![u].inCase = u \notin Early], sources)
    /\ UNCHANGED <<segments, processor, caseOpen, faults>>

\* attach_intake_uploads_to_case_v1: the intake gets its case.
OpenCase ==
    LET staged == {u \in Early : upload[u].status # "NONE" /\ ~upload[u].inCase}
        rows == [u \in Uploads |->
                    IF u \in staged THEN [upload[u] EXCEPT !.inCase = TRUE] ELSE upload[u]]
    IN /\ ~caseOpen
       /\ caseOpen' = TRUE
       /\ Write(staged, rows, sources)
       /\ UNCHANGED <<segments, processor, faults>>

-----------------------------------------------------------------------------
(* Staff.                                                                  *)

Open(u) == upload[u].inCase /\ job[u].status \notin Closed

\* register_upload_as_source_impl_v1, in the transaction of its callers.
Registrable(u) ==
    /\ upload[u].inCase
    /\ upload[u].source \/ upload[u].status \notin {"REJECTED", "SUPERSEDED"}

RegisterWhole(u) ==
    /\ upload' = [upload EXCEPT ![u].source = TRUE,
                                ![u].status = IF upload[u].source THEN @ ELSE "INGESTED"]
    /\ sources' = sources \cup {Whole(u)}
    /\ job' = [job EXCEPT ![u].status = "REGISTERED", ![u].registered = TRUE]

\* confirm_record_intake_job_v1: one source for the whole upload, whatever
\* its route, duplicates and bundles included.
ConfirmJob(u) ==
    /\ Open(u)
    /\ Registrable(u)
    /\ RegisterWhole(u)
    /\ UNCHANGED <<segments, processor, caseOpen, faults>>

\* register_upload_as_source_v1, which does not look at the job.
RegisterDirectly(u) ==
    /\ Registrable(u)
    /\ ~upload[u].source
    /\ Write({u}, [upload EXCEPT ![u].source = TRUE, ![u].status = "INGESTED"],
             sources \cup {Whole(u)})
    /\ UNCHANGED <<segments, processor, caseOpen, faults>>

Green(u) ==
    /\ Open(u)
    /\ job[u].status = "AUTO_REGISTER_READY"
    /\ ~job[u].duplicate
    /\ job[u].bundle = "SINGLE"

\* batch_register_green_intake_v1, one job of it.
BatchRegister(u) ==
    /\ Green(u)
    /\ Registrable(u)
    /\ RegisterWhole(u)
    /\ UNCHANGED <<segments, processor, caseOpen, faults>>

BatchFails(u) ==
    /\ Green(u)
    /\ faults < MaxFaults
    /\ faults' = faults + 1
    /\ job' = [job EXCEPT ![u].status = "FAILED"]
    /\ UNCHANGED <<upload, segments, sources, processor, caseOpen>>

\* Mutant: the candidate is not asked for.
MarkAnyDuplicate(u) ==
    LET rows == [upload EXCEPT ![u].status = "SUPERSEDED"]
    IN /\ upload[u].inCase
       /\ upload' = rows
       /\ job' = [job EXCEPT ![u] = [Refreshed(u, job[u], rows, sources)
                                        EXCEPT !.status = "RESOLVED_DUPLICATE"]]
       /\ UNCHANGED <<segments, sources, processor, caseOpen, faults>>

\* mark_record_intake_duplicate_v1, which closes a registered job as well.
MarkDuplicate(u) ==
    LET rows == [upload EXCEPT ![u].status = "SUPERSEDED"]
    IN /\ upload[u].inCase
       /\ job[u].duplicate
       /\ upload' = rows
       /\ job' = [job EXCEPT ![u] = [Refreshed(u, job[u], rows, sources)
                                        EXCEPT !.status = "RESOLVED_DUPLICATE"]]
       /\ UNCHANGED <<segments, sources, processor, caseOpen, faults>>

\* Mutant: no page twice, gaps allowed.
CoversNoPageTwice(ranges, pages) ==
    \A n \in 1 .. pages : Cardinality({r \in ranges : n \in r}) <= 1

\* Each page lies in exactly one of the page ranges.
CoversEachPageOnce(ranges, pages) ==
    \A n \in 1 .. pages : Cardinality({r \in ranges : n \in r}) = 1

Proposed(parts) == {[pages |-> r, status |-> "PROPOSED"] : r \in parts}

\* replace_record_intake_segments_v1: staff redraw the boundaries.
ReplaceSegments(u, parts) ==
    /\ Open(u)
    /\ job[u].pages > 0
    /\ Cardinality(parts) >= 2
    /\ CoversEachPageOnce(parts, job[u].pages)
    /\ segments' = [segments EXCEPT ![u] = Proposed(parts)]
    /\ job' = [job EXCEPT ![u].status = "EXCEPTION", ![u].bundle = "PROBABLE_BUNDLE"]
    /\ UNCHANGED <<upload, sources, processor, caseOpen, faults>>

\* confirm_record_intake_segments_v1: one source for each segment.
ConfirmSegments(u) ==
    LET open == {g.pages : g \in {g \in segments[u] : g.status = "PROPOSED"}}
        srcs == sources \cup {[of |-> u, pages |-> r] : r \in open}
        rows == [upload EXCEPT ![u].status = "INGESTED"]
        done == [job[u] EXCEPT !.status = "REGISTERED", !.registered = FALSE,
                               !.bundle = "BUNDLE"]
    IN /\ Open(u)
       /\ ~job[u].duplicate
       /\ job[u].pages > 0
       /\ Cardinality(open) >= 2
       /\ CoversEachPageOnce(open, job[u].pages)
       /\ upload' = rows
       /\ sources' = srcs
       /\ segments' = [segments EXCEPT ![u] = {[g EXCEPT !.status = "REGISTERED"] : g \in @}]
       /\ job' = [job EXCEPT ![u] = Refreshed(u, done, rows, srcs)]
       /\ UNCHANGED <<processor, caseOpen, faults>>

-----------------------------------------------------------------------------
(* The edge function.  Nobody waits for it: it answers at once and goes on *)
(* in the background with the rows it has read.                            *)

\* Only an upload that is already linked is turned away.
Queue(p, u) ==
    /\ processor[p].pc = "idle"
    /\ upload[u].status # "NONE"
    /\ ~upload[u].source
    /\ processor' = [processor EXCEPT ![p] =
            [pc |-> "reading", of |-> u, packet |-> job[u].bundle = "PROBABLE_BUNDLE"]]
    /\ UNCHANGED <<upload, job, segments, sources, caseOpen, faults>>

\* Mutant: the bundle checks forgotten.
DispositionByGrade(duplicate, parts, bundle, grade) ==
    IF duplicate THEN "EXCEPTION" ELSE grade

\* Anything that asks for a human makes the job an exception; grade is what
\* the text alone would give.
Disposition(duplicate, parts, bundle, grade) ==
    IF duplicate \/ Cardinality(parts) > 1 \/ bundle = "PROBABLE_BUNDLE"
    THEN "EXCEPTION" ELSE grade

\* Mutant: the job is not looked at again.
AnalysedAnyway(u, packet, grade) ==
    LET parts == Doc[u].parts
        bundle == IF packet \/ Cardinality(parts) > 1 THEN "PROBABLE_BUNDLE" ELSE "SINGLE"
    IN /\ job' = [job EXCEPT
             ![u].status = Disposition(job[u].duplicate, parts, bundle, grade),
             ![u].bundle = bundle, ![u].pages = Doc[u].pages]
       /\ segments' = [segments EXCEPT ![u] = Proposed(parts)]

\* apply_record_intake_analysis_v1, which ignores the result for a closed job.
Analysed(u, packet, grade) ==
    LET parts == Doc[u].parts
        bundle == IF packet \/ Cardinality(parts) > 1 THEN "PROBABLE_BUNDLE" ELSE "SINGLE"
    IN IF job[u].status \in Closed
       THEN UNCHANGED <<job, segments>>
       ELSE /\ job' = [job EXCEPT
                  ![u].status = Disposition(job[u].duplicate, parts, bundle, grade),
                  ![u].bundle = bundle, ![u].pages = Doc[u].pages]
            /\ segments' = [segments EXCEPT ![u] = Proposed(parts)]

\* The grade is EXCEPTION whatever the text says if the scan is unreadable,
\* the file too large or another upload looks like a version of this one.
Apply(p) ==
    /\ processor[p].pc = "reading"
    /\ \E grade \in {Doc[processor[p].of].read, "EXCEPTION"} :
        Analysed(processor[p].of, processor[p].packet, grade)
    /\ processor' = [processor EXCEPT ![p] = Over]
    /\ UNCHANGED <<upload, sources, caseOpen, faults>>

Fault(p, pc) ==
    /\ faults < MaxFaults
    /\ faults' = faults + 1
    /\ processor' = [processor EXCEPT ![p].pc = pc]

\* Download or extraction fails, or the database refuses the result.
Throws(p) ==
    /\ processor[p].pc = "reading"
    /\ Fault(p, "failing")
    /\ UNCHANGED <<upload, job, segments, sources, caseOpen>>

\* The result is applied and the answer is lost.
ApplyUnanswered(p) ==
    /\ processor[p].pc = "reading"
    /\ Analysed(processor[p].of, processor[p].packet, Doc[processor[p].of].read)
    /\ Fault(p, "failing")
    /\ UNCHANGED <<upload, sources, caseOpen>>

\* The catch block writes by upload id, whatever the job is by now.
WriteFailed(p) ==
    /\ processor[p].pc = "failing"
    /\ job' = [job EXCEPT ![processor[p].of].status = "FAILED"]
    /\ processor' = [processor EXCEPT ![p] = Over]
    /\ UNCHANGED <<upload, segments, sources, caseOpen, faults>>

\* The runtime ends the background work.
Dies(p) ==
    /\ processor[p].pc \in {"reading", "failing"}
    /\ faults < MaxFaults
    /\ faults' = faults + 1
    /\ processor' = [processor EXCEPT ![p] = Over]
    /\ UNCHANGED <<upload, job, segments, sources, caseOpen>>

-----------------------------------------------------------------------------
StaffStep(u) ==
    \/ ConfirmJob(u) \/ RegisterDirectly(u) \/ BatchRegister(u) \/ BatchFails(u)
    \/ MarkDuplicate(u) \/ ConfirmSegments(u)
    \/ \E parts \in SUBSET Ranges(u) : ReplaceSegments(u, parts)

ProcessorStep(p) ==
    \/ \E u \in Uploads : Queue(p, u)
    \/ Apply(p) \/ Throws(p) \/ ApplyUnanswered(p) \/ WriteFailed(p) \/ Dies(p)

Next ==
    \/ OpenCase
    \/ \E u \in Uploads : Receive(u) \/ StaffStep(u)
    \/ \E p \in Processors : ProcessorStep(p)

Spec == Init /\ [][Next]_vars

-----------------------------------------------------------------------------
(* Properties.                                                             *)

\* What a job says is registered is in the registry: the whole upload, or
\* sources that between them hold every page.  Registration, segmentation,
\* analysis and the trigger each write their share of this.
RegistrationIsTrue ==
    \A u \in Uploads :
        job[u].status = "REGISTERED" =>
            IF job[u].registered
            THEN upload[u].source /\ Whole(u) \in sources
            ELSE \A n \in 1 .. job[u].pages :
                    \E g \in segments[u] :
                        /\ n \in g.pages
                        /\ g.status = "REGISTERED"
                        /\ [of |-> u, pages |-> g.pages] \in sources

Registered(u) == \E s \in sources : s.of = u

\* "Detect exact duplicates by hash before Source creation": when a file is
\* registered from two uploads, one of the two was marked as a duplicate.
DuplicatesAreNoticed ==
    \A u, v \in Uploads :
        u # v /\ Doc[u].file = Doc[v].file /\ Registered(u) /\ Registered(v) =>
            job[u].duplicate \/ job[v].duplicate

\* Setting uploads aside as duplicates loses a file only if two copies of it came
\* with the intake form and both were dismissed: the opening of the case makes each
\* of them a duplicate of the other.  Otherwise an upload of the file is still there
\* or registered, however the copies arrived.
FilesSurvive ==
    \A u \in Uploads :
        upload[u].status = "SUPERSEDED" =>
            \/ \E v \in Uploads :
                  /\ Doc[v].file = Doc[u].file
                  /\ Registered(v) \/ upload[v].status \in {"RECEIVED", "INGESTED"}
            \/ \E v, w \in Early :
                  /\ v # w /\ Doc[v].file = Doc[u].file /\ Doc[w].file = Doc[u].file
                  /\ upload[v].status = "SUPERSEDED" /\ upload[w].status = "SUPERSEDED"

\* A file found to hold several documents and not yet settled, which is offered for
\* quick or batch registration all the same.
Slipped(u) ==
    /\ job[u].status \notin Closed
    /\ Cardinality(segments[u]) > 1
    /\ Route(job[u].status) # "RED"

\* What the operating procedure says: bundles are Red.
BundlesAreRed == \A u \in Uploads : ~Slipped(u)

\* A file found to hold several documents waits for a human, whatever is analysed,
\* fails or is redrawn afterwards; only its attachment to the case, which grades it
\* by its name, lets it slip.
BundlesStayRed ==
    [][\A u \in Uploads :
          Slipped(u)' /\ ~Slipped(u) => upload'[u].inCase /\ ~upload[u].inCase]_vars

\* A closed job stays closed, except that a late failure of the processor
\* may mark it FAILED.
ClosedStaysClosed ==
    [][\A u \in Uploads :
        job[u].status \in Closed => job'[u].status \in Closed \cup {"FAILED"}]_vars

=============================================================================
