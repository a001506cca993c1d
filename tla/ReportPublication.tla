-------------------------- MODULE ReportPublication --------------------------
(***************************************************************************)
(* Drafts, review, approval, publication and withdrawal of the reports of  *)
(* one case.  The state of all its reports is one encrypted file; each run *)
(* of a staff page reads the case, reads the file, brings the drafts up to *)
(* date, writes the file back whole, and may then carry out one command of *)
(* the review center and write it again.  Nothing detects that another     *)
(* page wrote in between.                                                  *)
(***************************************************************************)
EXTENDS Naturals, FiniteSets

CONSTANTS
    Sessions,     \* sessions of staff who may analyse or review
    Reports, Texts,
    Overlap,      \* whether page runs may overlap
    MaxRevision,  \* bound: revisions of a report
    MaxFaults,    \* bound: failed writes
    MaxRestarts,  \* bound: changes of a key
    None

ASSUME PublicationAssumption ==
    /\ Overlap \in BOOLEAN
    /\ MaxRevision \in Nat \ {0} /\ MaxFaults \in Nat /\ MaxRestarts \in Nat
    /\ None \notin Texts

VARIABLES
    backend,    \* "local" (demo) or "cloud" (production)
    key,        \* the key each session's store works with
    current,    \* the report the case file yields now
    file,       \* the publication state in the store
    page,       \* the run of each session's page
    approvals,  \* what has ever been approved
    editions,   \* what has ever been published, under which revision
    faults, restarts
vars == <<backend, key, current, file, page, approvals, editions, faults, restarts>>
ghosts == <<approvals, editions>>
counters == <<faults, restarts>>

Statuses == {"DRAFT", "IN_REVIEW", "APPROVED", "PUBLISHED", "REVOKED"}

\* The demo draws a key per session, production configures one; either changes
\* when the session, or the deployment, starts anew.
Keys == (Sessions \cup {"configured"}) \X (0 .. MaxRestarts)

Record == [status : Statuses, revision : Nat, draft : Texts,
           snapshot : Texts \cup {None}, revoked : BOOLEAN]
Records == [Reports -> Record \cup {None}]
File == [key : Keys, records : Records]
Page == [pc : {"idle", "load", "save", "open", "store"},
         reports : [Reports -> Texts \cup {None}], records : Records]

\* None stands for what is not there.
ASSUME NoneAssumption == None \notin Record /\ None \notin File

NoRecords == [r \in Reports |-> None]
NoPage == [pc |-> "idle", reports |-> [r \in Reports |-> None], records |-> NoRecords]

TypeOK ==
    /\ backend \in {"local", "cloud"}
    /\ key \in [Sessions -> Keys]
    /\ current \in [Reports -> Texts]
    /\ file \in File \cup {None}
    /\ page \in [Sessions -> Page]
    /\ approvals \subseteq Reports \X Texts
    /\ editions \subseteq Reports \X Nat \X Texts
    /\ faults \in 0 .. MaxFaults /\ restarts \in 0 .. MaxRestarts

Init ==
    /\ backend \in {"local", "cloud"}
    /\ key = [s \in Sessions |-> <<IF backend = "local" THEN s ELSE "configured", 0>>]
    /\ current \in [Reports -> Texts]
    /\ file = None
    /\ page = [s \in Sessions |-> NoPage]
    /\ approvals = {} /\ editions = {}
    /\ faults = 0 /\ restarts = 0

-----------------------------------------------------------------------------
(* The records. *)

\* Mutant: the record is made before its draft is known.
NewRecordBlank(text) ==
    [status |-> "DRAFT", revision |-> 1, draft |-> None, snapshot |-> None, revoked |-> FALSE]
NewRecord(text) ==
    [status |-> "DRAFT", revision |-> 1, draft |-> text, snapshot |-> None, revoked |-> FALSE]

\* Mutants: a changed draft keeps its approval; its revision; shows it again.
SyncDraftApproved(rec, text) ==
    IF rec = None THEN NewRecord(text)
    ELSE IF rec.draft = text THEN rec
    ELSE [rec EXCEPT !.revision = @ + 1, !.draft = text]
SyncDraftUnnumbered(rec, text) ==
    IF rec = None THEN NewRecord(text)
    ELSE IF rec.draft = text THEN rec
    ELSE [rec EXCEPT !.draft = text, !.status = "DRAFT"]
SyncDraftShows(rec, text) ==
    IF rec = None THEN NewRecord(text)
    ELSE IF rec.draft = text THEN rec
    ELSE [rec EXCEPT !.revision = @ + 1, !.draft = text, !.status = "DRAFT", !.revoked = FALSE]

\* sync_drafts of one report: a changed draft is a new revision, to be reviewed
\* again; what clients see is kept.
SyncDraft(rec, text) ==
    IF rec = None THEN NewRecord(text)
    ELSE IF rec.draft = text THEN rec
    ELSE [rec EXCEPT !.revision = @ + 1, !.draft = text, !.status = "DRAFT"]

SyncDrafts(records, texts) == [r \in Reports |-> SyncDraft(records[r], texts[r])]

\* published_reports
Shown(rec) == IF rec = None \/ rec.revoked THEN None ELSE rec.snapshot

Stored == IF file = None THEN NoRecords ELSE file.records
Visible == [r \in Reports |-> Shown(Stored[r])]

-----------------------------------------------------------------------------
(* A run of the page. *)

Quiet == Overlap \/ \A t \in Sessions : page[t].pc = "idle"
At(s, pc) == page[s].pc = pc
Goes(s, pc) == page' = [page EXCEPT ![s].pc = pc]
Ends(s) == page' = [page EXCEPT ![s] = NoPage]
Fault == faults < MaxFaults /\ faults' = faults + 1 /\ UNCHANGED restarts

\* The manifest is read and the reports are built from it.
OpenPage(s) ==
    /\ At(s, "idle") /\ Quiet
    /\ page' = [page EXCEPT ![s].pc = "load", ![s].reports = current]
    /\ UNCHANGED <<backend, key, current, file, ghosts, counters>>

Readable(s) == file # None => file.key = key[s]

Loaded(s, records) ==
    LET synced == SyncDrafts(records, page[s].reports) IN
    /\ \A r \in Reports : synced[r].revision <= MaxRevision
    /\ page' = [page EXCEPT ![s].pc = "save", ![s].records = synced]

\* EncryptedLocalPublicationStore.load takes a file it cannot decrypt for none.
LoadLocal(s) ==
    /\ backend = "local" /\ At(s, "load")
    /\ Loaded(s, IF Readable(s) THEN Stored ELSE NoRecords)
    /\ UNCHANGED <<backend, key, current, file, ghosts, counters>>

\* Mutant: recovers as the local store does.
LoadCloudRecovers(s) ==
    /\ backend = "cloud" /\ At(s, "load")
    /\ Loaded(s, IF Readable(s) THEN Stored ELSE NoRecords)
    /\ UNCHANGED <<backend, key, current, file, ghosts, counters>>

\* SupabasePublicationStore.load, and the GCS one, raise: the page ends there.
LoadCloud(s) ==
    /\ backend = "cloud" /\ At(s, "load")
    /\ IF Readable(s) THEN Loaded(s, Stored) ELSE Ends(s)
    /\ UNCHANGED <<backend, key, current, file, ghosts, counters>>

\* save writes over whatever is in the store.
Write(s) == file' = [key |-> key[s], records |-> page[s].records]

Save(s) ==
    /\ At(s, "save")
    /\ Write(s) /\ Goes(s, "open")
    /\ UNCHANGED <<backend, key, current, ghosts, counters>>

\* The write fails, with or without effect, and ends the page.
SaveFails(s) ==
    /\ Fault /\ backend = "cloud"
    /\ At(s, "save") \/ At(s, "store")
    /\ Ends(s)
    /\ UNCHANGED file \/ Write(s)
    /\ UNCHANGED <<backend, key, current, ghosts>>

-----------------------------------------------------------------------------
(* The review center: one command on the record the page has just read. *)

Command(s, r, rec) ==
    /\ page' = [page EXCEPT ![s].pc = "store", ![s].records = [@ EXCEPT ![r] = rec]]
    /\ UNCHANGED <<backend, key, current, file, counters>>

SendToReview(s, r) ==
    LET rec == page[s].records[r] IN
    /\ At(s, "open")
    /\ rec.status \in {"DRAFT", "REVOKED"}
    /\ Command(s, r, [rec EXCEPT !.status = "IN_REVIEW"])
    /\ UNCHANGED ghosts

ApproveReport(s, r) ==
    LET rec == page[s].records[r] IN
    /\ At(s, "open")
    /\ rec.status = "IN_REVIEW"
    /\ Command(s, r, [rec EXCEPT !.status = "APPROVED"])
    /\ approvals' = approvals \cup {<<r, rec.draft>>}
    /\ UNCHANGED editions

\* The record's draft must be the report of this page.
Publishable(rec, text) == rec.status = "APPROVED" /\ rec.draft = text

PublishReport(s, r) ==
    LET rec == page[s].records[r] IN
    /\ At(s, "open")
    /\ Publishable(rec, page[s].reports[r])
    /\ Command(s, r, [rec EXCEPT !.snapshot = page[s].reports[r], !.status = "PUBLISHED",
                                 !.revoked = FALSE])
    /\ editions' = editions \cup {<<r, rec.revision, page[s].reports[r]>>}
    /\ UNCHANGED approvals

RevokeReport(s, r) ==
    LET rec == page[s].records[r] IN
    /\ At(s, "open")
    /\ rec.snapshot # None
    /\ Command(s, r, [rec EXCEPT !.status = "REVOKED", !.revoked = TRUE])
    /\ UNCHANGED ghosts

StoreCommand(s) ==
    /\ At(s, "store")
    /\ Write(s) /\ Ends(s)
    /\ UNCHANGED <<backend, key, current, ghosts, counters>>

Leave(s) ==
    /\ At(s, "open") /\ Ends(s)
    /\ UNCHANGED <<backend, key, current, file, ghosts, counters>>

PageStep(s) ==
    \/ OpenPage(s) \/ LoadLocal(s) \/ LoadCloud(s) \/ Save(s) \/ SaveFails(s)
    \/ \E r \in Reports : \/ SendToReview(s, r) \/ ApproveReport(s, r)
                          \/ PublishReport(s, r) \/ RevokeReport(s, r)
    \/ StoreCommand(s) \/ Leave(s)

-----------------------------------------------------------------------------
(* Around the pages. *)

\* Load or clear the demo data: the publication state is emptied too.
EmptyState(s) ==
    /\ backend = "local" /\ At(s, "idle") /\ Quiet
    /\ file' = [key |-> key[s], records |-> NoRecords]
    /\ UNCHANGED <<backend, key, page, ghosts, counters>>

\* A session starts anew; the key of production is changed.  The pages that
\* worked with the old key are gone.
Renewed(k) == <<k[1], k[2] + 1>>

NewSession(s) ==
    /\ backend = "local"
    /\ restarts < MaxRestarts /\ restarts' = restarts + 1
    /\ key' = [key EXCEPT ![s] = Renewed(@)]
    /\ Ends(s)
    /\ UNCHANGED <<backend, current, file, ghosts, faults>>

KeyReplaced ==
    /\ backend = "cloud"
    /\ restarts < MaxRestarts /\ restarts' = restarts + 1
    /\ key' = [s \in Sessions |-> Renewed(key[s])]
    /\ page' = [s \in Sessions |-> NoPage]
    /\ UNCHANGED <<backend, current, file, ghosts, faults>>

CaseChanges ==
    /\ current' \in [Reports -> Texts]
    /\ UNCHANGED <<backend, key, file, page, ghosts, counters>>

Next ==
    \/ \E s \in Sessions : PageStep(s)
    \/ \E s \in Sessions : EmptyState(s) /\ current' \in [Reports -> Texts]
    \/ \E s \in Sessions : NewSession(s)
    \/ KeyReplaced
    \/ CaseChanges

Spec == Init /\ [][Next]_vars

-----------------------------------------------------------------------------
(* Properties. *)

\* Whatever a client is shown was approved, in that text and for that report:
\* however pages overlap, writes get lost and drafts change meanwhile.
ShownWasApproved ==
    \A r \in Reports : Visible[r] # None => <<r, Visible[r]>> \in approvals

\* As long as page runs do not overlap, a revision number that a published
\* report carries stands for one text of that report.
RevisionNamesOneText ==
    backend = "cloud" =>
        \A a, b \in editions : (a[1] = b[1] /\ a[2] = b[2]) => a[3] = b[3]

HasSnapshot(rec) == rec # None /\ rec.snapshot # None

\* If the records that page s works from hold the snapshot of r, so do they after
\* the step, until the page ends.
KeepsSnapshot(s, r) ==
    HasSnapshot(IF At(s, "load") THEN Stored[r] ELSE page[s].records[r]) =>
        page'[s].pc \in {"idle", "load"} \/ HasSnapshot(page'[s].records[r])

\* Page s is about to write records without a snapshot of r.
LacksSnapshot(s, r) ==
    /\ page[s].pc \in {"save", "store"}
    /\ ~HasSnapshot(page[s].records[r])

\* In production no run of a page drops a published snapshot that was in the store
\* when it loaded, whatever command, changed draft or lost key comes in between: a
\* file that cannot be read is not taken for an empty one.  Only a page that loaded
\* before the publication can take it out of the store again.
NothingForgotten ==
    [][backend = "cloud" =>
          \A r \in Reports :
             /\ \A s \in Sessions : KeepsSnapshot(s, r)
             /\ HasSnapshot(Stored[r]) /\ ~HasSnapshot(Stored'[r]) =>
                   \E s \in Sessions : LacksSnapshot(s, r)]_vars

\* What publication promises, see ReportPromise; holds as long as page runs do
\* not overlap.
Standing(rec) == IF rec # None /\ rec.status = "APPROVED" THEN rec.draft ELSE None
Promise == INSTANCE ReportPromise
             WITH approval <- [r \in Reports |-> Standing(Stored[r])], shown <- Visible
KeepsPromise == Promise!Spec

\* In production a withdrawn report becomes visible again only when an approval
\* that stands in the store is published.
WithdrawnStaysHidden ==
    [][\A r \in Reports :
          (backend = "cloud" /\ Stored[r] # None /\ Stored[r].revoked /\ Visible'[r] # None) =>
              Visible'[r] = Standing(Stored[r])]_vars
=============================================================================
