# Verification of the Coletti Advisory platform

TLA+ models of the parts of Coletti Advisory that decide something over several
steps: money, appointments, records, evidence, reports, cases, and who sees them;
TLC configurations that check them on small instances; and proofs, checked by
TLAPS, of what holds for every instance.

The platform is two programs on one database. The first is a static web
application that talks to Postgres through Supabase: row-level reads and writes,
database functions (RPCs) that run in a transaction each, triggers, and four edge
functions that call out to Square, an e-mail provider and document processing.
The second is the Python application in `coletti_advisory/`: a Streamlit portal
and an Owner Console, whose script runs from the top at every click, keeps what
it remembers in the browser session, and calls a core (in process for the demo, a
remote service in production), an object store and the same database, with no
transaction over the calls of a run.

## 1. Inventory

| part | state it keeps | operations | hard behaviour | what makes it correct |
|---|---|---|---|---|
| Square billing: `square-create-payment-link`, `square-webhook`, `square_billing_v1.sql` | `invoices`, `payments`, `payment_refunds`, `payment_provider_events`; orders, payments, refunds at Square | issue a link; ledger, dispatch and apply an event; promote an invoice | no transactions: every request interleaves with those of other invocations; redelivery, lost replies, killed invocations, events out of order | an invoice is PAID only if Square collected the amount, no promotion is lost, PAID stays; one payable order per invoice; nothing acknowledged is lost |
| Consultation pipeline: `consultation_pipeline_v1.sql`, forms in `app.js` | `preconsultation_assignments`, `consultation_workflows`, `consultation_assessments`, intake status | submit, decide, link booking, prepare invoice, mark completed, qualify; three triggers | the workflow is a copy of bookings, invoices and payments kept by triggers; calls in unexpected order; the link reads without a lock | no work without money; the copy agrees with the originals; one standing assessment; locked answers stay locked |
| Confirmation e-mail: `consultation-confirmation-email` | `consultation_notifications`, the workflow's e-mail state | one invocation of about nine requests | unchecked writes, provider failures, rescheduling meanwhile, overlapping invocations | nothing claims to be sent that was not |
| Records intake: `record-intake-process`, five migrations of 2026-10-06 | intake jobs, segments, sources | receive, triage, analyse and apply, split, register, dismiss, attach to the case | long computation between the read and the write; a trigger that re-derives the job; failure path; duplicates in both directions | what is said to be registered is; copies are noticed and not all dismissed; bundles wait for a human; closed stays closed |
| Source storage and working copies: `storage.py`, `intake.py`, `working_copy.py`, `record_governance.py` | encrypted objects, the core's sources | allocate an identifier, seal and put the payload, register, open a working copy | two or three remote calls per source; each may fail with or without effect | no source without its own object |
| Universal ingestion and extraction: `universal_ingestion.py`, `document_processing.py`, `interface_connection_patch.py`, `mobile_mvp.py` | the extraction queue of a session, propositions | ingest a file, link, package, e-mail or mobile upload; promote or dismiss what was extracted | packages in packages, one pair of calls per part; a queue rewritten after a series of calls; change of case | every part under its own parent; no unsafe package; completed means all; no statement lost or doubled |
| Case analysis and reports: `analysis.py`, `reporting.py`, `core_adapter.py`, `commercial_config.py` | the case file | tables, publication gate, three reports; propositions, contradictions, reconciliations, escalations | repeated contradictions and repeated reviews; control records and absent basis | a gate that says ready rests on settled reviews |
| Report publication: `publication.py`, review center | records with status, revision and published snapshot; the key of each store | load, synchronise, save, send to review, approve, publish, revoke | pages that read, rewrite and save everything; drafts that change between approval and publication; keys that change | clients see only approved, unrevoked texts; one text per revision |
| Portal session and navigation: `supabase_auth.py`, `portal_runtime.py`, `experience_shell.py`, the Owner Console's patches | token, remembered page, case and requests of a browser session; profiles and grants | sign in and out, choose pages and cases, preview, follow links | role and grants read one table at a time, remembered state of whoever signed in before, changes by administrators meanwhile | a run shows only what its user may see |
| Case lifecycle and owner decisions: `portal_case_lifecycle.py`, `owner_console_live*.py`, lifecycle migrations | checkpoints, the case's status, requests, the approval queue | complete or reopen a checkpoint, request a record, approve or reject | the click is carried out by the next run, after it has read everything again; a check before the lock | closed only on what was found settled and proven; a decision is the one that was clicked |
| Booking calendar protection: `reconciliation_live_controls_v1.sql` 381-659, `processBooking` in the webhook | `consultation_bookings`, calendar commands | create, reschedule, cancel a booking's protected morning | events out of order; a reschedule before the first command ran | exactly one protected morning per live booking |
| PONS transfers: the same migration, 38-366 | pathways, transfer packets | request, decide, record, close | double approval, closing while transfers are open | nothing crosses without both approvals |
| Client acceptance and case opening | intake status, clients, cases, memberships, work items | accept, open, grant | triggers calling triggers; reopened decisions | one client relation, one case per intake |
| Operational brief queue | queued briefs | stage, claim, complete | two workers, repeated staging | one e-mail per brief |
| Owner workspace continuity, owner evidence workspace and docket | views of one session | import, classify, show | none: pure functions and calls to an outside service | |
| System lab, Dari assistant, institution rules, presentation | probes, questions, settings, layout | | none: nothing else reads what they write | |
| Staff authority in the database, coordination plane, user interfaces, deployment | roles, registers, pages | | guards and rendering, no protocol | |

How the parts meet. The webhook writes `payments` and `invoices`; triggers copy
both into the consultation workflow, and a third copies the booking. The
confirmation function reads workflow and invoice and writes the workflow's e-mail
state. Acceptance follows a qualified consultation, opens a case, and the case
carries the records intake and the lifecycle.

In the Python application ingestion turns files into sources of the core, review
turns extracted statements into propositions, reviewers relate propositions by
contradictions and reconciliations, the tables and the gate are functions of that
case file, the reports are functions of the tables, and publication decides which
text of a report a client sees. The portal session decides whose page of which case
a run shows, and with it which of these operations can be clicked at all.

## 2. Modules

| module | models |
|---|---|
| `SquareBilling` | both billing functions, request by request |
| `Receivables` | abstract specification: what billing promises of an invoice |
| `ConsultationPipeline` | the consultation RPCs and triggers, composed with the writes of the webhook, the link function and the office |
| `ConfirmationEmail` | EXTENDS the pipeline with the confirmation function, request by request |
| `RecordsIntake` | uploads, intake jobs, segments and sources under the trigger, staff, the processing function and the opening of the case |
| `SourceIntake` | the evidence path of the Python application: packages, storage, registration, extraction, promotion |
| `CaseAnalysis` | tables, gate and reports as operators on a case file; no state |
| `ReportPublication` | records, stores and page runs of report publication |
| `ReportPromise` | abstract specification: what publication promises a client |
| `CaseReports` | composes `CaseAnalysis` and `ReportPublication`: the case file changes and its reports with it |
| `PortalSession` | one browser session: sign-in, reads of role and grants, choice of page and case |
| `CaseDesk` | EXTENDS `PortalSession` with what is clicked there: checkpoints, requests, approvals, next to other staff |
| `SquareBillingProofs`, `ConsultationProofs`, `RecordsIntakeProofs`, `SourceIntakeProofs`, `ExtractionQueueProofs`, `ReportPublicationProofs`, `CaseReportsProofs`, `CaseDeskProofs` | theorems about the modules above |
| `MCSquareBilling`, `MCConsultation`, `MCRecordsIntake`, `MCSourceIntake`, `MCCaseReports`, `MCCaseDesk` | values of the constants for TLC |

### SquareBilling

`invoice`, `payRow`, `refRow` and `ledger` are the four tables; a row that does
not exist has status `NONE`. `worker[w]` is a running webhook invocation: `pc`
names the request it is about to send, the other fields are its local variables.
`issuer[c]` is a running link request. `orderRef`, `payment`, `refund`, `emitted`
and `acked` are what Square knows. Every action is one request: `InsertEvent` and
`EventState` the ledger and its duplicate check, `FindInvoiceByOrder` to
`PatchInvoice` the payment handler, `FindParent` to `PatchParent` the refund
handler, `MarkProcessed`, `MarkIgnored`, `MarkFailed` the ledger's updates. A
write may take effect and lose its reply, any request may fail, an invocation may
die (`Throws`, `Refused`, `Dies`, `InsertUnanswered`; at most `MaxFaults` in a
behaviour). Amounts appear only as `Total`, what a set of payments or refunds adds
up to, and `Due`. The signature check and HTTP validation change no state and are
left out; so is the currency, which is one throughout.

`Receivables` is what all this comes to for an invoice: one order of its own on which
it can be paid, the payments collected on it, and whether it is open, paid or
voided. `Links`, `Collected` and `States` are the mapping: the order the row shows,
what Square completed on orders created for the invoice, and its status, DRAFT
and OPEN being one. Ledger, rows and invocations do not appear; `KeepsReceivables`
says that whatever they do, each step is one of `Link`, `Collect`, `Pay`, `Void` or
nothing.

`InOrder` says whether Square holds back an event while an earlier state of the
same object is unacknowledged. Square does not promise that order, so only the run
that needs it assumes it.

What the requests of two webhook invocations do to each other is part of the model,
and two rules of the billing document do not survive it. Its line 123 says that an
invoice is promoted only when the recorded payments meet the amount; a refund
recorded between the read of the total and the promotion breaks that
(`PromotedWhenCovered`, the run `promoted`). Its line 102 says that terminal events
are no-ops on retry; two deliveries that both pass the duplicate check before either
is marked are both processed, and when the slower one fails, its catch block writes
FAILED over the other's PROCESSED (`MarkFailed`). No run is spent on that: what it
could damage is whether a payment is recorded, and `AcknowledgedIsRecorded`,
`PaidIsCovered` and `RecordedIsPaid` hold with that step in the model.

### ConsultationPipeline and ConfirmationEmail

One action per RPC, with its guard, the tables it writes and the triggers those
writes fire (`SyncFromBooking`, `SyncFromInvoice`, `SyncFromPayment`).
`wf[c]` is the workflow row: decision, linked booking with the copied state and
time, whether an invoice is prepared, payment state, e-mail state, clearance,
completion, qualification and the assessment it names. RPCs lock the row, so they
are atomic; `LinkReads` and `LinkWrites` are apart because the booking is read
without a lock, and `linking[c]` both holds what was read and stands for the
lock. The active booking states (BOOKED, CONFIRMED, UPDATED, RESCHEDULED) are one
state, since the pipeline never tells them apart. The webhook's writes appear as
`RecordPayment` and `PromoteInvoice`, the link function's last write as
`IssueLink`; the order of requests inside those functions is `SquareBilling`'s
subject. `RecordPayment` writes whatever status its event brings over whatever the
row shows, as the webhook's upsert does: events are delivered again and in any
order, so a payment that is refunded may be recorded as succeeded again, and one
that succeeded as pending or refunded. `charge` is what Square knows of the payment
and bounds what events can say: never SUCCEEDED of a payment that failed there.
`Overlap` is three things that overlapping requests do: a booking event commits
inside a link, a slow link request writes OPEN over a newer status, a promotion
rests on payments that succeeded once and are refunded by now. Callers are taken to
be authorised: an unauthorised call raises before it changes anything.

A `sender` of `ConfirmationEmail` is an invocation of the edge function. It does
not look at the answers of its writes, so each may be skipped; nor at the status of
its last read (`index.ts` 91-95), so a failed read counts as no notification, the
invocation goes on, and its insert is refused when the key is taken. The provider
may refuse, or send and answer with an error; the invocation may die between any two
requests. A failed read lets an invocation write SENDING or FAILED over SENT: what
was sent need not stay marked as sent, and no property says so.

### RecordsIntake

`upload`, `job`, `segments` and `sources` are the tables (a job belongs to its
upload, so both are indexed by it; a source is the pages of an upload, none for
the whole). `Write` is a change of upload rows together with the trigger on them,
`Refreshed` what the trigger makes of a job. Every database function locks the job
and is one transaction, hence one action: `ConfirmJob`, `BatchRegister` (one job
of the batch; each has its own sub-transaction), `RegisterDirectly`,
`ReplaceSegments`, `ConfirmSegments`, `MarkDuplicate`, `Analysed`. The edge
function answers before it has done anything and goes on with the rows it read:
`Queue` starts `processor[p]`, `Apply` delivers its result to the job as it is by
then, and `Throws`, `ApplyUnanswered` and `Dies` are its failures, the first two
followed by `WriteFailed`, the catch block. An invocation runs once.

Two rules one would like are broken by the opening of the case, and the properties
say so and no more. The trigger that attaches an upload grades it by its name alone,
so a bundle that was found before the case opened is offered for batch registration
(`BundlesAreRed` and the run `bundles`; `BundlesStayRed` is that nothing else lets a
bundle slip). And two copies that came with the form are each marked as a duplicate
of the other, so that dismissing both loses the file; `FilesSurvive` is that this is
the only way. No document of the repository claims that a copy always remains, so
there is no violation run for it.

What a file holds is a constant, `Doc[u]`: its content as a hash tells it apart,
its pages, the documents the processor would split it into, and how the name alone
and the text grade it. Other grounds for an exception (sparse text, size, a
probable version) are the choice of grade in `Apply`. The route of a job is a
function of its status and is derived; UNKNOWN and SINGLE bundles are one, as
nothing tells them apart. Statuses that no code of the repository writes
(PROCESSING, CONFIRMED segments, REJECTED uploads) appear only where the code
tests for them. Left out: version families, document request matches, review
times, labels, metrics, and two uploads inserted at the same moment.

### SourceIntake

`object` is what the store holds at the address of an identifier, `source` and
`propositions` are the core's tables, `session[s]` is a page: `pc` names the call
its script is about to make, `made` the parts registered so far, `missed` the
attachments it warns about, `told` the last message, and `listed` and `waiting`
the extraction queue. A submission is a link, a file of the device, an e-mail with
attachments or a mobile upload (`Kind`); its files are sequences of parts, an
archive followed by what it holds (`Units`, `within`).

`Submit` inspects the first file (`Accepted` is `inspect_zip` of the archive and
of every nested one, each with its own counts) and starts the loop; `Allocate`,
`PutLocally` or `PutInCloud`, `Register` are the three calls for each part, and
`Advanced` goes to the next part or attachment. `Throws` is a call that fails
without effect, `Unanswered` one that takes effect and is not answered, after
either of which `Abandoned` says what the script does: the first file ends it, an
attachment is warned about. `DownloadFails` is a link that cannot be fetched.
`Register` also queues what `Extract` finds in the part. `Promote` starts a
promotion, `AddProposition` is one call of it, `PromotionFails` one that fails
with or without effect; the queue is rewritten after the last. `Dismiss`,
`SwitchCase`, `ReplaceDemoData` and `SessionEnds` are the rest of the page.
`deployment` is production, where all sessions share a core and a store, or a
demo, where each session has its own, of which one is followed.

A demo starts with two synthetic sources and their propositions, and
`ReplaceDemoData` loads them again or clears them: `synthetic`. They come from no
submission and have no object in the store, so `source` and the properties are about
what submissions bring. Encryption is its effect: an object is sealed for a case and
an identifier, and `Intact` is what opening a working copy needs of it. Whether a
copy is handed out depends on the store too: the production storage of the
repository (`SupabaseEncryptedStorage`) has no `get`, so `working_copy.py` 137-155
always fails there; `SourcesAreStored` is about what is stored and not about opening
it. Left out: how each type of file is decoded (a content has the statements `Lines`
gives it), the bucket's start-up checks, the wording of record governance, and the
mobile command queue.

### CaseAnalysis, ReportPublication, ReportPromise, CaseReports

`CaseAnalysis` defines the tables of `analysis.py` over a case file (which
sources are substantive, which propositions are control or system statements,
how the last reconciliation of a pair resolves it, which escalations are open),
the publication gate, and the three reports of `reporting.py` as records of what
they state.

In `ReportPublication` the state of all reports of a case is one encrypted `file`;
`key[s]` is the key a session's store works with and `page[s]` a run of a staff
page. `OpenPage` reads the case, `LoadLocal` or `LoadCloud` the file (the demo takes
a file it cannot read for empty, production raises), the drafts are synchronised,
`Save` or `SaveFails` writes all records back, and then one command (`SendToReview`,
`ApproveReport`, `PublishReport`, `RevokeReport`) is carried out on the records the
page holds and written with `StoreCommand`, or none (`Leave`). `EmptyState` and
`NewSession` are the demo's reset and a session that starts anew, `KeyReplaced` a
new production key, `CaseChanges` anything that changes the case. `Overlap` says
whether runs of pages may overlap. They may in the program: a page that loaded
before another's command and saves after it undoes that command. After a withdrawal
it makes the report visible again (`WithdrawnStaysHidden`, the run
`publication_stale`); after a publication it drops the snapshot
(`portal_runtime.py:274`), which `NothingForgotten` names as the one way to lose
one. The review center's form and the two functions that load and save for a page
are called but defined nowhere in the repository; they are modelled from their
callers and marked external.

`ReportPromise` knows only the approval that stands for a text and the text that
is shown: what is shown was approved, an approval is used once, what is withdrawn
stays hidden until the next publication. `KeepsPromise` is `ReportPublication`
under the mapping approval <- `Standing` of the stored record, shown <- `Visible`.

`CaseReports` replaces `CaseChanges` by the operations on the demo's core:
`AddProposition`, `RecordContradiction`, `RecordReconciliation`, `Classify`,
`Escalate`, `ReplaceDemoData`. `current` is then what the analysis yields from the
file. A reviewer's words are the set of the words the code looks for (`Marks`).

### PortalSession and CaseDesk

`front` is which of the two programs runs, the portal or the reference interface;
`profile`, `member` and `assigned` are the tables that give a role and grant cases;
`token` and `memory` are what the browser session keeps; `run` is the run of the
script and `shown` what it rendered. A run takes the token (`Begin`), reads the
three tables one after the other (`ReadProfile`, `ReadMemberships`,
`ReadAssignments`) and chooses page and case from what it read and what the
session remembers (`Shows`). A click is any link of the sidebar, cards, profile
menu, stages, footer or preview; `Environment` is an administrator meanwhile.
A widget whose state Streamlit may drop between runs is a nondeterministic choice.

`CaseDesk` adds the clicks that change something. A click is remembered in
`pending`; the run it starts reads everything again, and makes the call only if
the same widget is rendered again (`Calls`), which for an approval means the same
place and key, and for a checkpoint the box of checkpoints, whose labels hold
their status. `call[w]` is a call in progress, of this session or of another one.
`transition_case_checkpoint_v1` is a sequence of statements, each of which sees what
others committed before it starts, so it is four steps: `CheckAuthority`, `CheckPrior`
(the checkpoints before the one to complete), `CheckEvidence` (the records that prove
it) and `WriteTransition`, which locks the row only then. A transition of other staff
(`OthersMove`) goes through the same steps, so two of them interleave; `Fails` is any
of them raising. `MayMove` and `MayAccess` are the database's own checks
(`private.can_access_case` of the migrations 20261008204900 and 20261008234632, and
the roles the function asks for). `Refreshed` is the refresh every snapshot starts
with: checkpoints not settled follow the published report and a case that is closed.
A checkpoint of a synthetic case may be NOT_APPLICABLE, which counts as settled for
those after it and which the refresh leaves alone. `ready` is a ghost: for which
checkpoints a transition found what comes before settled and, in a later statement,
the evidence. Completing the closeout once more after the archive takes an archived
case back to CLOSED, as in the code; nothing in the repository says it must not.

`Others` are transitions, decisions, requests and publications, and new approvals of
other staff and programs. The service behind the Owner Console's queue is not in the
repository: that it decides what is still pending is taken from how the console uses
it, and marked external.

Left out: password recovery and the OpenID path; clicks while a run is under way;
the other nine checkpoints, before the human review and between it and the handoff,
whose order and evidence are of the same form; messages; the dispatcher; the live
dashboard's "Review" link, whose target nothing reads.

## 3. Runs

`Symmetry` permutes model values that no constant tells apart and is used in runs
of invariants and step properties only. `CHECK_DEADLOCK FALSE` everywhere: a
system with nothing to deliver and nobody acting is at rest.

| run | instance | shows |
|---|---|---|
| `faults` | 2 overlapping webhook invocations, 1 payment, 1 refund of half, 1 link request that may stop half-way, 1 fault, any order of events | `TypeOK`, `PaidIsCovered`, `RowsAreReal`, `AcknowledgedIsRecorded`, `OneOrderPerInvoice`, `RecordedIsPaid` |
| `orderly` | 1 invocation at a time, 2 half payments, 1 fault, events in order, fair | `SettledIsPaid`, `KeepsReceivables`, `EveryEventIsAcknowledged` |
| `promoted` (violation) | 2 overlapping webhook invocations, 1 payment, 1 refund, events in order, no fault | an invoice is promoted on a total that a refund has made out of date |
| `reopened` (violation) | 2 overlapping link requests, no fault | a slow link request writes OPEN over PAID |
| `consultation` | 1 consultation, 1 booking with 2 times, 2 payments needed together, 2 assessments, `Overlap` | `TypeOK`, `AssignmentFollowsDecision`, `OneStandingAssessment`, `WorkIsPaidFor`, `ClearedIsPaid`, `WorkflowFollowsBooking` |
| `confirmation` | 1 booking, 2 times, 1 sender that may retry, 2 faults | `SentIsDelivered` |
| `intake` | 3 copies of a photograph (2 with the intake form), a two-page bundle sent with the form, 2 overlapping invocations, 1 fault | `TypeOK`, `RegistrationIsTrue`, `DuplicatesAreNoticed`, `FilesSurvive`, `BundlesStayRed`, `ClosedStaysClosed` |
| `bundles` (violation) | 1 two-page bundle sent with the form, 1 invocation, no fault | a bundle that was found is offered for batch registration |
| `evidence` | demo and production, 1 session, 2 cases, 5 submissions, 3 identifiers, 2 propositions, 1 fault | `TypeOK`, `SourcesAreStored`, `LineageIsWhole`, `CompletedMeansAll`, `PackagesAreInspected`, `StatementsAccounted` |
| `publication` | demo and production, 2 sessions whose runs do not overlap, 1 report, 2 changes of the case, 1 failed write, 1 change of key | `CaseTypeOK`, `ShownWasApproved`, `RevisionNamesOneText`, `ReadyMeansSettled`, `NothingForgotten`, `KeepsPromise` |
| `publication_stale` (violation) | 2 overlapping sessions, 1 change of the case, no fault | a withdrawn report is visible again |
| `portal` | both programs and the demo, 2 users (3 casts of 4 roles), 2 cases (1 locked, 1 synthetic), 2 approvals (1 protected), clicks and changes 4 in all, of which 1 change by others | `DeskTypeOK`, `ShownIsAuthorized`, `DecisionIsMeant`, `ClosedWasComplete` |

Bounds. In billing one invoice is enough, because no operation relates two; two
invocations, because every race is between two writers; two payments, so that
neither covers the amount alone; a refund of half, so that both refund states
occur. One fault per behaviour reaches every failure path once; two in
`confirmation`, so that a retry may fail as well. One booking with two times is
booked, cancelled, booked again and linked again and again; two assessments make
superseding happen. In `intake` two copies with the form and one after it bring the
duplicate check of the arrival and of the opening together, and let every copy be
dismissed in turn; a bundle of two pages has a split with a gap, one with an overlap
and a right one, and coming with the form it is analysed before and after the case
opens; two invocations on one upload make a late result and a late failure meet a
job that has moved on.

In `evidence` the five submissions are a record by link with a repeated, a blank
and one statement too many, a package in a package, one whose inner archive holds
a member to refuse, an e-mail with that package and a scan attached, and a mobile
upload; three identifiers complete the first package or leave a second submission
half-way, two propositions allow a promotion of two statements or the same one
twice. No submission exceeds the limits on members, bytes and depth: a flawed member
stands for every ground on which an archive is refused, and the limits themselves
are in the theorem `PackagesInspected` only. One session is enough for what the
properties say of a session; the theorems are for any number. In `publication` two
changes of the case let a draft change between approval and publication and once
more after it, and two revisions let a number be used again; two sessions because
one page can only be overtaken by another.

In `portal` four clicks and changes are enough to sign in, be shown something, sign
in as another, and meet a change of grants meanwhile; or to sign in, choose the case,
complete its closeout and have another transition, a request or a withdrawal of the
report come between any two steps of it. `Delivered` cases start reviewed and
delivered, so that closing and archiving are within reach. Case `c1` is synthetic:
such a case has every behaviour of a real one and NOT_APPLICABLE besides, and
`ClosedWasComplete` says of the real ones that they do without it. `Casts` keeps the
first roles to the three pairs in which one user works for the firm and differs from
the other in what he may see, and `Moments` lets others act while a page, a run or a
call of the desk is under way; before that, only an administrator acts.

What a run leaves out on purpose, and what then breaks:

| assumed | in | without it |
|---|---|---|
| link requests do not overlap | `faults`, `orderly` | `PaidStaysPaid` fails (`reopened`), and with it `KeepsReceivables` and `RecordedIsPaid` |
| one webhook invocation, events in order | `orderly` | `SettledIsPaid` fails: a refund event or an older event applied late changes the recorded status, or a refund that comes before its payment is dismissed for good |
| page runs do not overlap | `publication` | `WithdrawnStaysHidden` fails (`publication_stale`), with it `KeepsPromise` and `RevisionNamesOneText`; a page that loaded before a publication drops its snapshot; `ShownWasApproved` holds either way |

A part payment clears a consultation (`SyncFromPayment`), so `WorkIsPaidFor` speaks
of a payment and not of the whole fee; of one that Square completed, since its row
may by now say anything. A paid consultation that is cancelled and booked again is
PAID and not cleared; `ClearedIsPaid` is the other direction.

The four violation runs are findings about the code. The payment-link function's
last PATCH reopens an invoice paid meanwhile, against
`docs/SQUARE_BILLING_INTEGRATION_v1.md:125`. The webhook promotes an invoice on a
total that is out of date, against line 123 of the same document. A bundle that the
analysis found is graded by its name when its case opens, against the operating
procedure ("ambiguous/duplicate/bundle/high-risk records Red", migration
`20261006234245`, line 30). And a staff page that loaded before a withdrawal and
saves after it makes the report visible again, against `publication.py:331-332` and
`tests/test_publication.py:127`.

Fairness (`orderly`; the two billing violations state it too). Weak fairness of the
steps of an invocation: the runtime runs an invocation that has not failed to its
end. Weak fairness of `Deliver`: Square redelivers an event that was not answered
with 200. Faults are not fair and are bounded, so the property says that
acknowledgement follows once failures stop. Square gives up after some days; the
model does not. Nothing else in this code retries by itself: every other step waits
for a person.

Each property has a mutant, a definition in the module beside the one it changes,
that TLC finds to violate it.

## 4. Proofs

`SquareBillingProofs` proves, for any sets of invoices, orders, payments, refunds,
invocations and link requests, any amounts with a monotone total that is nothing for
no payments, any order of events and any number of faults: `TypeCorrect`,
`PaidOnlyIfCollected`, `RowsTellTheTruth`, `OneLinkPerInvoice` and
`NothingAcknowledgedIsLost`. None of the invariants is inductive
alone, since an invocation acts on what it read before. The strengthening says
what each invocation knows at each request: that the event it holds is one Square
published, that the row it will write is what Square completed, and, between the
read of the total and the update of the invoice, that Square collected enough.
Refunds do not spoil that last fact, as what Square collected is never
uncollected; this is why `PaidIsCovered` survives the races that break
`PromotedWhenCovered`. For link requests the strengthening is that an issuer past
the creation holds an order whose reference is its invoice. For
`NothingAcknowledgedIsLost` it is `RecInv`: the invoice a payment was made on still
shows the payment's order, so the handler finds it and does not dismiss the event,
and an invocation past its write, or past a ledger entry PROCESSED, stands for a
row that exists.

Three theorems have one hypothesis, `OneIssuer`: link requests do not overlap, which
the run `reopened` shows to be needed. `PaidIsNeverReopened` holds because a request
that got past its guard found no link and a PAID invoice has one (`LinkInv`).
`ReceivablesKept` is the refinement, for any number of overlapping webhook
invocations: a promotion is a `Pay` because its invocation knows that Square
collected enough, a completed payment is a `Collect` because it is on an order that
no other invoice shows. `CoveredIsPromoted` is `RecordedIsPaid`, for any number of
overlapping invocations and any order of events: whoever completes a covering set of
rows has the read of the total still before him (`PromotionGoesOn`), and finds the
set unless a later event has broken it up. It speaks of behaviours without a failed
request, as after one only the redelivery promotes the invoice (`SettledIsPaid`,
left to TLC).

`ConsultationProofs` proves, for any sets of consultations, bookings, payments,
assessments and senders, any number of faults and `Overlap` either way:
`TypeCorrect`, `AnswersFollowDecision`, `AssessmentStands`, `NoWorkUnpaid`,
`SentWasDelivered`, `ClearanceIsPaid` and `BookingIsFollowed`. The first four are
inductive together: a row shows SUCCEEDED only for a payment Square completed
(`RowsAreCharged`), so clearance, which such a row gives or a promotion on payments
that were such, rests on one whatever the rows show later. `SentIsDelivered` is not
inductive: a sender writes "sent" two requests after the provider answered, and
names the booking and time it read before. `SendersKnow` says that a sender past the
provider holds a key that was delivered; that such a key names a time at all rests
on `BookedHasTime`, which says so of every booking linked or being linked.
`ClearanceIsPaid` needs `MoneyInv`: money reaches a consultation only through an
invoice with a link, so that a link issued for an invoice that has none finds
nothing cleared; a slow request reopens a paid one and leaves OPEN and DUE together,
the exception the property names. `BookingIsFollowed` needs `LinkInv`: the booking a
workflow is linked to does not change under a link that writes it again, since its
event waits for the workflow's lock.

`RecordsIntakeProofs` proves, for any uploads, contents, invocations and number of
faults: `TypeCorrect`, `RegistrationHolds`, `DuplicatesNoticed` and
`ClosedIsClosed`. `RegistrationIsTrue` does not survive the trigger and the catch
block by itself. The strengthening keeps, for each upload, why the registry has
what the job says: a linked upload and a REGISTERED segment each stand for a
source (`RowOK`), whatever the job's status is for the moment, so a job that is
marked FAILED and registered again still tells the truth; and an upload outside
the case is untouched (`Staged`). `DuplicatesAreNoticed` follows from the same
statement about uploads that are live rather than registered (`Noticed`): an
upload becomes live only by arriving in the case or by the opening of the case,
and `HasDuplicate` then sees every other live copy (`ArrivalSteps`).

`NoFileIsLost` is `FilesSurvive`, for any uploads in and outside the form. Its
strengthening (`OriginalsStand`) is that every upload marked as a duplicate has a
copy in the case that is not marked, unless two copies of its file came with the
form and are attached; only marked ones are ever set aside. `BundlesReviewed` is
`BundlesStayRed`: no analysis, failure, split or redrawing makes an unsettled bundle
leave review, and only the change of the upload's case does. The parts of a document
are assumed finite in number.

`SourceIntakeProofs` proves, for any sessions, cases, submissions, limits and
number of faults: `TypeCorrect`, `SourcesStored`, `LineageHolds`, `CompletedIsAll`
and `PackagesInspected`. The inductive invariant says how far each page has come
(`Script`: every part before the present one is registered, under its own place),
that an identifier a page holds belongs to no other page and no source (`Owned`,
`Apart`), and of every source that its object holds it, that its parent is what it
should be, and that its package passed inspection (`SourceOK`). That a demo's
sessions do not meet is `Busy => Uses`. Assumed of the constants: every later part
lies in an archive before it, `None` is not a value of the data, "production" is
not a session.

`ExtractionQueueProofs` adds to that invariant what the queue knows (`QueueInv`):
a selected statement is waiting until the last call of its promotion, and what is
done already is recorded; queues of different pages are disjoint and only of pages
the deployment follows; every proposition names a registered source; and, as long
as no fault has happened, no statement is recorded that still waits. From these
`StatementsHold`.

`ReportPublicationProofs` proves `TypeCorrect` and, with overlapping runs allowed,
`ShownApproved`: every record in the store or in the hands of a page, if published
and not revoked, shows a text that was approved (`Okay`). For runs that do not
overlap it proves `RevisionNames` and `WithdrawnHidden`, and `PromiseKept`, the
refinement of `ReportPromise`. `SnapshotsStay` is `NothingForgotten`, with any
number of overlapping pages: what a page found when it loaded stays in its hands to
the end of its run, so what the store loses is lost to a page that loaded before.
The strengthening for runs that do not overlap is that one page at most is at work
(`Alone`), that the records it will write differ from the stored ones by moves that
the promise allows (`InStep`), and that revisions already used are not above the
record's (`Numbered`). `WithdrawnHidden` is the property the run `publication_stale`
refutes, under the one assumption that separates them.

`CaseReportsProofs` proves `ReadySettled`: the gate rests on the tables, the tables
on the last reconciliation that names a contradiction of a pair, and the invariant
`Reviews` ties that to the last review recorded for the pair, whichever of its
contradictions it named. `CaseIsPublication` shows that the composed system
implements `ReportPublication`, from which `CaseTypeCorrect`, `CaseShownApproved`
and `CasePromiseKept` follow; assumed is that every report the analysis can yield
is a member of `Texts` (`ReportsAreTexts`).

`CaseDeskProofs` proves, for any users, cases, roles, approvals, clicks and changes:
`ShownAuthorized`, `DecisionsMeant` and `ClosedComplete`. For the first,
`PortalInv` says that whatever a run has read was its own user's at some moment
since it began, and that nothing is on the screen while it runs; for the second,
`ClicksOK` that a click is remembered only until the end of the run it starts, and
that a decision under way is one that was clicked; for the third, `CallsOK` and
`CasesOK` that a call, of whichever session, that is about to write has found what it
had to find, each in its own statement, that `ready` remembers it, and that an
archived case was closed before. Nothing is assumed of what others do between the
statements, nor of which cases are synthetic. `DeskTypeCorrect` types session and
desk together. It needs that the queue lists an approval once and none that was
decided, for then the place a decision takes out leaves such a queue, and that a
decision is sent only for a user who is signed in; approvals are assumed finite in
number, as the queue is a sequence of them.

Left to TLC: `EveryEventIsAcknowledged`, liveness under fairness, which is out of
the prover's reach; and `SettledIsPaid`, which needs one invocation at a time and
events in order, so that a proof for every number of them would say little of the
code. Every other property of the passing runs is a theorem, some under a hypothesis
named above, which the instances of those runs satisfy. The four violations are
counterexamples of TLC; `PaidStaysPaid` and `WithdrawnStaysHidden` are theorems for
requests and pages that do not overlap. What a recursive definition computes is not
proved either, as the prover has no induction over data: the theorems about packages
use of `Depth` only that the check of every archive is made. No module with a
theorem declares a RECURSIVE operator.

## 5. Not modelled, and the plan

Next, in this order:

1. `CalendarProtection`: the booking handler and the calendar commands it stages;
   the Dispatcher that runs them is not in the repository and would be external.
   Property: a quiet system has exactly one protected morning per live booking.
2. `VersionFamilies`, on top of `RecordsIntake`: version numbers and document
   request matches as registration confirms them.
3. `CaseOpening`: acceptance, its triggers, memberships; and the other nine checkpoints
   in `CaseDesk`.
4. `Pons` and `BriefQueue`: small protocols, one module each.

Cannot be modelled from this repository: `current_user_role`, the transition of
docket documents, the production core and the service behind the Owner Console's
queue are called and not included. `private.can_access_case` is included and is
`MayAccess`. Not planned, because they keep no state that another part reads or have
no protocol: owner continuity, the system lab, the Dari assistant, institution
rules, presentation, the coordination plane, user interfaces, deployment.
`PROJECT.json` lists every part with the reason, and under "hazards" the places in
the code the properties are aimed at, those no property covers included.
