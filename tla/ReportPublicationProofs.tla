----------------------- MODULE ReportPublicationProofs -----------------------
(***************************************************************************)
(* Proofs about ReportPublication, for any sessions, reports, texts and    *)
(* bounds.                                                                 *)
(***************************************************************************)
EXTENDS ReportPublication, TLAPS

-----------------------------------------------------------------------------
(* The inductive invariant. *)

\* A page that runs has read the reports; one that has read the file has a
\* record of every report.
PageOK(p) ==
    /\ p.pc # "idle" => p.reports \in [Reports -> Texts]
    /\ p.pc \in {"save", "open", "store"} => p.records \in [Reports -> Record]
PagesOK == \A s \in Sessions : PageOK(page[s])

KeysOK == \A s \in Sessions : key[s][2] <= restarts

\* What a record says is approved, or shows, is among the approvals A.
Okay(A, r, rec) ==
    rec # None =>
        /\ rec.status = "APPROVED" => <<r, rec.draft>> \in A
        /\ rec.snapshot # None => <<r, rec.snapshot>> \in A
AllOkay(A, records) == \A r \in Reports : Okay(A, r, records[r])

\* The records in the store and those of every page.
RecordsOkay ==
    AllOkay(approvals, Stored) /\ \A s \in Sessions : AllOkay(approvals, page[s].records)

TypeInv == TypeOK /\ PagesOK /\ KeysOK
ApprovalInv == TypeInv /\ RecordsOkay

-----------------------------------------------------------------------------
(* Records. *)

LEMMA NewRecordIs ==
    ASSUME NEW text \in Texts
    PROVE  /\ NewRecord(text) \in Record /\ NewRecord(text) # None
           /\ NewRecord(text).status = "DRAFT" /\ NewRecord(text).revision = 1
           /\ NewRecord(text).draft = text /\ NewRecord(text).snapshot = None
           /\ NewRecord(text).revoked = FALSE
<1>1. NewRecord(text) \in Record
  BY DEF NewRecord, Record, Statuses
<1>2. NewRecord(text) # None
  BY <1>1, NoneAssumption
<1> QED
  BY <1>1, <1>2 DEF NewRecord

LEMMA RecordHas ==
    ASSUME NEW rec \in Record
    PROVE  /\ rec.status \in Statuses /\ rec.revision \in Nat /\ rec.draft \in Texts
           /\ rec.snapshot \in Texts \cup {None} /\ rec.revoked \in BOOLEAN /\ rec # None
BY NoneAssumption DEF Record

\* What sync_drafts makes of a record.
LEMMA SyncDraftIs ==
    ASSUME NEW rec \in Record \cup {None}, NEW text \in Texts
    PROVE  /\ SyncDraft(rec, text) \in Record
           /\ SyncDraft(rec, text).draft = text
           /\ rec = None => SyncDraft(rec, text) = NewRecord(text)
           /\ (rec # None /\ rec.draft = text) => SyncDraft(rec, text) = rec
           /\ (rec # None /\ rec.draft # text) =>
                 /\ SyncDraft(rec, text).status = "DRAFT"
                 /\ SyncDraft(rec, text).revision = rec.revision + 1
                 /\ SyncDraft(rec, text).snapshot = rec.snapshot
                 /\ SyncDraft(rec, text).revoked = rec.revoked
<1>1. CASE rec = None
  BY <1>1, NewRecordIs DEF SyncDraft
<1>2. CASE rec # None /\ rec.draft = text
  BY <1>2, RecordHas DEF SyncDraft
<1>3. CASE rec # None /\ rec.draft # text
  <2>1. rec \in Record
    BY <1>3
  <2> DEFINE new == [rec EXCEPT !.revision = @ + 1, !.draft = text, !.status = "DRAFT"]
  <2>2. SyncDraft(rec, text) = new
    BY <1>3 DEF SyncDraft
  <2>3. rec.revision + 1 \in Nat
    BY <2>1, RecordHas
  <2>4. new \in Record
    BY <2>1, <2>3 DEF Record, Statuses
  <2>5. /\ new.draft = text /\ new.status = "DRAFT" /\ new.revision = rec.revision + 1
        /\ new.snapshot = rec.snapshot /\ new.revoked = rec.revoked
    BY <2>1 DEF Record
  <2> HIDE DEF new
  <2> QED
    BY <1>3, <2>2, <2>4, <2>5
<1> QED
  BY <1>1, <1>2, <1>3

LEMMA SyncDraftsAre ==
    ASSUME NEW records \in Records, NEW texts \in [Reports -> Texts]
    PROVE  /\ SyncDrafts(records, texts) \in [Reports -> Record]
           /\ \A r \in Reports : SyncDrafts(records, texts)[r] = SyncDraft(records[r], texts[r])
BY SyncDraftIs DEF SyncDrafts, Records

\* The records a page may load: those of the store or none.
LEMMA StoredIs ==
    ASSUME TypeOK
    PROVE  /\ Stored \in Records /\ NoRecords \in Records
           /\ \A r \in Reports : NoRecords[r] = None
BY DEF TypeOK, Stored, NoRecords, File, Records

-----------------------------------------------------------------------------
(* What each action does to the pages. *)

\* The page of s becomes p, and no other page changes.
PageBecomes(s, p) ==
    /\ page' \in [Sessions -> Page]
    /\ page'[s] = p
    /\ \A t \in Sessions \ {s} : page'[t] = page[t]

LEMMA PageChanges ==
    ASSUME page \in [Sessions -> Page], NEW s \in Sessions, NEW p \in Page,
           page' = [page EXCEPT ![s] = p]
    PROVE  PageBecomes(s, p)
BY DEF PageBecomes

LEMMA PageHas ==
    ASSUME NEW p \in Page
    PROVE  /\ p.pc \in {"idle", "load", "save", "open", "store"}
           /\ p.reports \in [Reports -> Texts \cup {None}]
           /\ p.records \in Records
           /\ p = [pc |-> p.pc, reports |-> p.reports, records |-> p.records]
BY DEF Page

LEMMA PageUpdates ==
    ASSUME NEW q \in Page, NEW pc \in {"idle", "load", "save", "open", "store"}
    PROVE  /\ [q EXCEPT !.pc = pc]
                = [pc |-> pc, reports |-> q.reports, records |-> q.records]
           /\ \A reports \in [Reports -> Texts \cup {None}] :
                [q EXCEPT !.pc = pc, !.reports = reports]
                   = [pc |-> pc, reports |-> reports, records |-> q.records]
           /\ \A records \in Records :
                [q EXCEPT !.pc = pc, !.records = records]
                   = [pc |-> pc, reports |-> q.reports, records |-> records]
<1> DEFINE one == [q EXCEPT !.pc = pc]
           two == [pc |-> pc, reports |-> q.reports, records |-> q.records]
<1>1. one = two
  BY DEF Page
<1>2. two \in Page
  BY PageHas DEF Page
<1>3. two.pc = pc /\ two.reports = q.reports /\ two.records = q.records
  OBVIOUS
<1>4. ASSUME NEW reports \in [Reports -> Texts \cup {None}]
      PROVE  [q EXCEPT !.pc = pc, !.reports = reports] = [one EXCEPT !.reports = reports]
  OBVIOUS
<1>5. ASSUME NEW records \in Records
      PROVE  [q EXCEPT !.pc = pc, !.records = records] = [one EXCEPT !.records = records]
  OBVIOUS
<1> HIDE DEF one, two
<1>6. ASSUME NEW reports \in [Reports -> Texts \cup {None}]
      PROVE  [two EXCEPT !.reports = reports]
                = [pc |-> pc, reports |-> reports, records |-> q.records]
  BY <1>2, <1>3 DEF Page
<1>7. ASSUME NEW records \in Records
      PROVE  [two EXCEPT !.records = records]
                = [pc |-> pc, reports |-> q.reports, records |-> records]
  BY <1>2, <1>3 DEF Page
<1>8. one = [pc |-> pc, reports |-> q.reports, records |-> q.records]
  BY <1>1 DEF two
<1> QED
  <2>1. ASSUME NEW reports \in [Reports -> Texts \cup {None}]
        PROVE  [q EXCEPT !.pc = pc, !.reports = reports]
                  = [pc |-> pc, reports |-> reports, records |-> q.records]
    BY <1>1, <1>4, <1>6, Zenon
  <2>2. ASSUME NEW records \in Records
        PROVE  [q EXCEPT !.pc = pc, !.records = records]
                  = [pc |-> pc, reports |-> q.reports, records |-> records]
    BY <1>1, <1>5, <1>7, Zenon
  <2> QED
    BY <1>8, <2>1, <2>2, Zenon DEF one

LEMMA OpenPageDoes ==
    ASSUME TypeInv, NEW s \in Sessions, OpenPage(s)
    PROVE  PageBecomes(s, [pc |-> "load", reports |-> current, records |-> page[s].records])
<1> DEFINE p == [pc |-> "load", reports |-> current, records |-> page[s].records]
<1>1. page \in [Sessions -> Page] /\ page[s] \in Page /\ current \in [Reports -> Texts]
  BY DEF TypeInv, TypeOK
<1>2. p \in Page
  BY <1>1, PageHas DEF Page
<1>3. page' = [page EXCEPT ![s] = [page[s] EXCEPT !.pc = "load", !.reports = current]]
  BY <1>1 DEF OpenPage
<1>4. [page[s] EXCEPT !.pc = "load", !.reports = current] = p
  <2>1. "load" \in {"idle", "load", "save", "open", "store"} /\ page[s] \in Page
    BY <1>1
  <2>2. current \in [Reports -> Texts \cup {None}]
    BY <1>1
  <2>3. \A reports \in [Reports -> Texts \cup {None}] :
           [page[s] EXCEPT !.pc = "load", !.reports = reports]
              = [pc |-> "load", reports |-> reports, records |-> page[s].records]
    BY <2>1, PageUpdates, Zenon
  <2> QED
    BY <2>2, <2>3, Zenon
<1> HIDE DEF p
<1>9. PageBecomes(s, p)
  BY <1>1, <1>2, <1>3, <1>4, PageChanges
<1> QED
  BY <1>9 DEF p

\* What a page makes of the records it has loaded.
LEMMA LoadDoes ==
    ASSUME TypeInv, NEW s \in Sessions, page[s].pc = "load",
           NEW records \in Records, Loaded(s, records)
    PROVE  /\ page[s].reports \in [Reports -> Texts]
           /\ PageBecomes(s, [pc |-> "save", reports |-> page[s].reports,
                          records |-> SyncDrafts(records, page[s].reports)])
<1> DEFINE synced == SyncDrafts(records, page[s].reports)
           p == [pc |-> "save", reports |-> page[s].reports, records |-> synced]
<1>1. page \in [Sessions -> Page] /\ page[s] \in Page
  BY DEF TypeInv, TypeOK
<1>2. page[s].reports \in [Reports -> Texts]
  BY DEF TypeInv, PagesOK, PageOK
<1>3. synced \in [Reports -> Record]
  BY <1>2, SyncDraftsAre
<1>4. synced \in Records
  BY <1>3 DEF Records
<1>5. page' = [page EXCEPT ![s].pc = "save", ![s].records = synced]
  BY DEF Loaded
<1> HIDE DEF synced
<1>6. p \in Page
  BY <1>1, <1>4, PageHas DEF Page
<1>7. page' = [page EXCEPT ![s] = [page[s] EXCEPT !.pc = "save", !.records = synced]]
  BY <1>1, <1>5
<1>8. [page[s] EXCEPT !.pc = "save", !.records = synced] = p
  <2>1. "save" \in {"idle", "load", "save", "open", "store"} /\ page[s] \in Page
    BY <1>1
  <2>2. synced \in Records /\ page[s].reports \in [Reports -> Texts \cup {None}]
    BY <1>1, <1>4, PageHas
  <2> QED
    BY <2>1, <2>2, PageUpdates, Zenon
<1> HIDE DEF p
<1>9. PageBecomes(s, p)
  BY <1>1, <1>6, <1>7, <1>8, PageChanges
<1> QED
  BY <1>2, <1>9 DEF p, synced

LEMMA EndsDoes ==
    ASSUME TypeInv, NEW s \in Sessions, Ends(s)
    PROVE  PageBecomes(s, NoPage)
<1>1. page \in [Sessions -> Page] /\ NoPage \in Page
  BY DEF TypeInv, TypeOK, NoPage, NoRecords, Page, Records
<1>2. page' = [page EXCEPT ![s] = NoPage]
  BY DEF Ends
<1> QED
  BY <1>1, <1>2, PageChanges

LEMMA SaveDoes ==
    ASSUME TypeInv, NEW s \in Sessions, Save(s)
    PROVE  PageBecomes(s, [pc |-> "open", reports |-> page[s].reports, records |-> page[s].records])
<1> DEFINE p == [pc |-> "open", reports |-> page[s].reports, records |-> page[s].records]
<1>1. page \in [Sessions -> Page] /\ page[s] \in Page
  BY DEF TypeInv, TypeOK
<1>2. p \in Page
  BY <1>1, PageHas DEF Page
<1>3. page' = [page EXCEPT ![s] = [page[s] EXCEPT !.pc = "open"]]
  BY <1>1 DEF Save, Goes
<1>4. [page[s] EXCEPT !.pc = "open"] = p
  BY <1>1, PageHas, PageUpdates
<1> HIDE DEF p
<1>9. PageBecomes(s, p)
  BY <1>1, <1>2, <1>3, <1>4, PageChanges
<1> QED
  BY <1>9 DEF p

LEMMA CommandDoes ==
    ASSUME TypeInv, NEW s \in Sessions, NEW r \in Reports, page[s].pc = "open",
           NEW rec \in Record, Command(s, r, rec)
    PROVE  PageBecomes(s, [pc |-> "store", reports |-> page[s].reports,
                       records |-> [page[s].records EXCEPT ![r] = rec]])
<1> DEFINE changed == [page[s].records EXCEPT ![r] = rec]
           p == [pc |-> "store", reports |-> page[s].reports, records |-> changed]
<1>1. page \in [Sessions -> Page] /\ page[s] \in Page
  BY DEF TypeInv, TypeOK
<1>2. changed \in Records
  BY <1>1, PageHas DEF Records
<1>3. page' = [page EXCEPT ![s].pc = "store", ![s].records = [@ EXCEPT ![r] = rec]]
  BY DEF Command
<1>4. page' = [page EXCEPT ![s].pc = "store", ![s].records = changed]
  BY <1>1, <1>3, PageHas
<1> HIDE DEF changed
<1>5. p \in Page
  BY <1>1, <1>2, PageHas DEF Page
<1>6. page' = [page EXCEPT ![s] = [page[s] EXCEPT !.pc = "store", !.records = changed]]
  BY <1>1, <1>4
<1>7. [page[s] EXCEPT !.pc = "store", !.records = changed] = p
  <2>1. "store" \in {"idle", "load", "save", "open", "store"} /\ page[s] \in Page
    BY <1>1
  <2>2. changed \in Records /\ page[s].reports \in [Reports -> Texts \cup {None}]
    BY <1>1, <1>2, PageHas
  <2> QED
    BY <2>1, <2>2, PageUpdates, Zenon
<1> HIDE DEF p
<1>9. PageBecomes(s, p)
  BY <1>1, <1>5, <1>6, <1>7, PageChanges
<1> QED
  BY <1>9 DEF p, changed

-----------------------------------------------------------------------------
(* What the commands make of a record. *)

LEMMA SentRecord ==
    ASSUME NEW rec \in Record, NEW st \in Statuses
    PROVE  /\ [rec EXCEPT !.status = st] \in Record
           /\ [rec EXCEPT !.status = st].status = st
           /\ [rec EXCEPT !.status = st].draft = rec.draft
           /\ [rec EXCEPT !.status = st].revision = rec.revision
           /\ [rec EXCEPT !.status = st].snapshot = rec.snapshot
           /\ [rec EXCEPT !.status = st].revoked = rec.revoked
<1> DEFINE new == [rec EXCEPT !.status = st]
<1>1. new \in Record
  BY DEF Record
<1>2. /\ new.status = st /\ new.draft = rec.draft /\ new.revision = rec.revision
      /\ new.snapshot = rec.snapshot /\ new.revoked = rec.revoked
  BY DEF Record
<1> QED
  BY <1>1, <1>2

Published(rec, text) ==
    [rec EXCEPT !.snapshot = text, !.status = "PUBLISHED", !.revoked = FALSE]
LEMMA PublishedRecord ==
    ASSUME NEW rec \in Record, NEW text \in Texts
    PROVE  /\ Published(rec, text) \in Record
           /\ Published(rec, text).status = "PUBLISHED"
           /\ Published(rec, text).draft = rec.draft
           /\ Published(rec, text).revision = rec.revision
           /\ Published(rec, text).snapshot = text
           /\ Published(rec, text).revoked = FALSE
<1>1. Published(rec, text) \in Record
  BY DEF Published, Record, Statuses
<1>2. /\ Published(rec, text).status = "PUBLISHED"
      /\ Published(rec, text).draft = rec.draft
      /\ Published(rec, text).revision = rec.revision
      /\ Published(rec, text).snapshot = text
      /\ Published(rec, text).revoked = FALSE
  BY DEF Published, Record
<1> QED
  BY <1>1, <1>2

Revoked(rec) == [rec EXCEPT !.status = "REVOKED", !.revoked = TRUE]
LEMMA RevokedRecord ==
    ASSUME NEW rec \in Record
    PROVE  /\ Revoked(rec) \in Record
           /\ Revoked(rec).status = "REVOKED"
           /\ Revoked(rec).draft = rec.draft
           /\ Revoked(rec).revision = rec.revision
           /\ Revoked(rec).snapshot = rec.snapshot
           /\ Revoked(rec).revoked = TRUE
<1>1. Revoked(rec) \in Record
  BY DEF Revoked, Record, Statuses
<1>2. /\ Revoked(rec).status = "REVOKED"
      /\ Revoked(rec).draft = rec.draft
      /\ Revoked(rec).revision = rec.revision
      /\ Revoked(rec).snapshot = rec.snapshot
      /\ Revoked(rec).revoked = TRUE
  BY DEF Revoked, Record
<1> QED
  BY <1>1, <1>2

-----------------------------------------------------------------------------
(* Types. *)

LEMMA PagesStayOK ==
    ASSUME TypeInv, NEW s \in Sessions, NEW p, PageOK(p), PageBecomes(s, p)
    PROVE  page' \in [Sessions -> Page] /\ PagesOK'
BY DEF TypeInv, PagesOK, PageBecomes

LEMMA EndedOK == PageOK(NoPage)
BY DEF PageOK, NoPage

LEMMA WriteOK ==
    ASSUME TypeInv, NEW s \in Sessions, Write(s)
    PROVE  file' \in File
<1>1. key[s] \in Keys /\ page[s].records \in Records
  BY PageHas DEF TypeInv, TypeOK
<1> QED
  BY <1>1 DEF Write, File

\* A step that changes only the page of s, and perhaps the file and the ghosts.
LEMMA TypeFrame ==
    ASSUME TypeInv, page' \in [Sessions -> Page], PagesOK',
           UNCHANGED <<backend, key, current, restarts>>,
           file' \in File \cup {None}, faults' \in 0 .. MaxFaults,
           approvals' \subseteq Reports \X Texts, editions' \subseteq Reports \X Nat \X Texts
    PROVE  TypeInv'
BY DEF TypeInv, TypeOK, KeysOK

LEMMA TypeHas ==
    ASSUME TypeInv
    PROVE  /\ file \in File \cup {None} /\ faults \in 0 .. MaxFaults
           /\ approvals \subseteq Reports \X Texts /\ editions \subseteq Reports \X Nat \X Texts
           /\ \A s \in Sessions : page[s] \in Page
           /\ \A s \in Sessions : page[s].pc \in {"save", "open", "store"} =>
                 page[s].records \in [Reports -> Record] /\ page[s].reports \in [Reports -> Texts]
BY DEF TypeInv, TypeOK, PagesOK, PageOK

LEMMA TypeOpenPage ==
    ASSUME TypeInv, NEW s \in Sessions, OpenPage(s)
    PROVE  TypeInv'
<1> DEFINE p == [pc |-> "load", reports |-> current, records |-> page[s].records]
<1>1. PageOK(p)
  BY DEF PageOK, TypeInv, TypeOK
<1>2. PageBecomes(s, p)
  BY OpenPageDoes
<1> HIDE DEF p
<1>3. page' \in [Sessions -> Page] /\ PagesOK'
  BY <1>1, <1>2, PagesStayOK
<1> QED
  BY <1>3, TypeFrame, TypeHas DEF OpenPage, ghosts, counters

LEMMA TypeLoad ==
    ASSUME TypeInv, NEW s \in Sessions, LoadLocal(s) \/ LoadCloud(s)
    PROVE  TypeInv'
<1>1. PICK records \in Records : Loaded(s, records) \/ Ends(s)
  BY StoredIs DEF TypeInv, LoadLocal, LoadCloud
<1>2. page[s].pc = "load"
  BY DEF LoadLocal, LoadCloud, At
<1>3. page' \in [Sessions -> Page] /\ PagesOK'
  <2>1. CASE Ends(s)
    BY <2>1, EndsDoes, EndedOK, PagesStayOK
  <2>2. CASE Loaded(s, records)
    <3> DEFINE p == [pc |-> "save", reports |-> page[s].reports,
                     records |-> SyncDrafts(records, page[s].reports)]
    <3>1. page[s].reports \in [Reports -> Texts] /\ PageBecomes(s, p)
      BY <1>2, <2>2, LoadDoes
    <3>2. PageOK(p)
      BY <3>1, SyncDraftsAre DEF PageOK
    <3> HIDE DEF p
    <3> QED
      BY <3>1, <3>2, PagesStayOK
  <2> QED
    BY <1>1, <2>1, <2>2
<1> QED
  BY <1>3, TypeFrame, TypeHas DEF LoadLocal, LoadCloud, ghosts, counters

LEMMA TypeSave ==
    ASSUME TypeInv, NEW s \in Sessions, Save(s)
    PROVE  TypeInv'
<1> DEFINE p == [pc |-> "open", reports |-> page[s].reports, records |-> page[s].records]
<1>1. page[s].pc = "save"
  BY DEF Save, At
<1>2. PageOK(p)
  BY <1>1, TypeHas DEF PageOK
<1>3. PageBecomes(s, p)
  BY SaveDoes
<1> HIDE DEF p
<1>4. page' \in [Sessions -> Page] /\ PagesOK'
  BY <1>2, <1>3, PagesStayOK
<1>5. file' \in File
  BY WriteOK DEF Save
<1> QED
  BY <1>4, <1>5, TypeFrame, TypeHas DEF Save, ghosts, counters

LEMMA TypeSaveFails ==
    ASSUME TypeInv, NEW s \in Sessions, SaveFails(s)
    PROVE  TypeInv'
<1>1. page' \in [Sessions -> Page] /\ PagesOK'
  BY EndsDoes, EndedOK, PagesStayOK DEF SaveFails
<1>2. file' \in File \cup {None}
  BY WriteOK, TypeHas DEF SaveFails
<1>3. faults' \in 0 .. MaxFaults /\ restarts' = restarts
  BY TypeHas, PublicationAssumption DEF SaveFails, Fault
<1> QED
  BY <1>1, <1>2, <1>3, TypeFrame, TypeHas DEF SaveFails, ghosts

LEMMA TypeCommand ==
    ASSUME TypeInv, NEW s \in Sessions, NEW r \in Reports, page[s].pc = "open",
           NEW rec \in Record, Command(s, r, rec),
           approvals' \subseteq Reports \X Texts, editions' \subseteq Reports \X Nat \X Texts
    PROVE  TypeInv'
<1> DEFINE p == [pc |-> "store", reports |-> page[s].reports,
                 records |-> [page[s].records EXCEPT ![r] = rec]]
<1>1. PageOK(p)
  BY TypeHas DEF PageOK
<1>2. PageBecomes(s, p)
  BY CommandDoes
<1> HIDE DEF p
<1>3. page' \in [Sessions -> Page] /\ PagesOK'
  BY <1>1, <1>2, PagesStayOK
<1> QED
  BY <1>3, TypeFrame, TypeHas DEF Command, counters

\* Each command turns one record into another.
LEMMA CommandIs ==
    ASSUME TypeInv, NEW s \in Sessions, NEW r \in Reports,
           SendToReview(s, r) \/ ApproveReport(s, r) \/ PublishReport(s, r) \/ RevokeReport(s, r)
    PROVE  /\ page[s].pc = "open" /\ page[s].records[r] \in Record /\ page[s].reports[r] \in Texts
           /\ SendToReview(s, r) =>
                 Command(s, r, [page[s].records[r] EXCEPT !.status = "IN_REVIEW"])
           /\ ApproveReport(s, r) =>
                 Command(s, r, [page[s].records[r] EXCEPT !.status = "APPROVED"])
           /\ PublishReport(s, r) =>
                 Command(s, r, Published(page[s].records[r], page[s].reports[r]))
           /\ RevokeReport(s, r) => Command(s, r, Revoked(page[s].records[r]))
<1>1. page[s].pc = "open"
  BY DEF SendToReview, ApproveReport, PublishReport, RevokeReport, At
<1>2. page[s].records[r] \in Record /\ page[s].reports[r] \in Texts
  BY <1>1, TypeHas
<1>3. SendToReview(s, r) => Command(s, r, [page[s].records[r] EXCEPT !.status = "IN_REVIEW"])
  BY DEF SendToReview
<1>4. ApproveReport(s, r) => Command(s, r, [page[s].records[r] EXCEPT !.status = "APPROVED"])
  BY DEF ApproveReport
<1>5. PublishReport(s, r) => Command(s, r, Published(page[s].records[r], page[s].reports[r]))
  BY DEF PublishReport, Published
<1>6. RevokeReport(s, r) => Command(s, r, Revoked(page[s].records[r]))
  BY DEF RevokeReport, Revoked
<1> QED
  BY <1>1, <1>2, <1>3, <1>4, <1>5, <1>6

LEMMA TypeCommands ==
    ASSUME TypeInv, NEW s \in Sessions, NEW r \in Reports,
           SendToReview(s, r) \/ ApproveReport(s, r) \/ PublishReport(s, r) \/ RevokeReport(s, r)
    PROVE  TypeInv'
<1> DEFINE rec == page[s].records[r]
           text == page[s].reports[r]
<1>1. page[s].pc = "open" /\ rec \in Record /\ text \in Texts
  BY CommandIs
<1>2. rec.draft \in Texts /\ rec.revision \in Nat
  BY <1>1, RecordHas
<1>3. CASE SendToReview(s, r)
  <2>1. Command(s, r, [rec EXCEPT !.status = "IN_REVIEW"])
    BY <1>3, CommandIs
  <2>2. [rec EXCEPT !.status = "IN_REVIEW"] \in Record
    BY <1>1, SentRecord DEF Statuses
  <2>3. approvals' = approvals /\ editions' = editions
    BY <1>3 DEF SendToReview, ghosts
  <2> QED
    BY <1>1, <2>1, <2>2, <2>3, TypeCommand, TypeHas
<1>4. CASE ApproveReport(s, r)
  <2>1. Command(s, r, [rec EXCEPT !.status = "APPROVED"])
    BY <1>4, CommandIs
  <2>2. [rec EXCEPT !.status = "APPROVED"] \in Record
    BY <1>1, SentRecord DEF Statuses
  <2>3. approvals' = approvals \cup {<<r, rec.draft>>} /\ editions' = editions
    BY <1>4 DEF ApproveReport
  <2>4. approvals' \subseteq Reports \X Texts
    BY <1>2, <2>3, TypeHas
  <2> QED
    BY <1>1, <2>1, <2>2, <2>3, <2>4, TypeCommand, TypeHas
<1>5. CASE PublishReport(s, r)
  <2>1. Command(s, r, Published(rec, text))
    BY <1>5, CommandIs
  <2>2. Published(rec, text) \in Record
    BY <1>1, PublishedRecord
  <2>3. editions' = editions \cup {<<r, rec.revision, text>>} /\ approvals' = approvals
    BY <1>5 DEF PublishReport
  <2>4. editions' \subseteq Reports \X Nat \X Texts
    BY <1>1, <1>2, <2>3, TypeHas
  <2> QED
    BY <1>1, <2>1, <2>2, <2>3, <2>4, TypeCommand, TypeHas
<1>6. CASE RevokeReport(s, r)
  <2>1. Command(s, r, Revoked(rec))
    BY <1>6, CommandIs
  <2>2. Revoked(rec) \in Record
    BY <1>1, RevokedRecord
  <2>3. approvals' = approvals /\ editions' = editions
    BY <1>6 DEF RevokeReport, ghosts
  <2> QED
    BY <1>1, <2>1, <2>2, <2>3, TypeCommand, TypeHas
<1> QED
  BY <1>3, <1>4, <1>5, <1>6

LEMMA TypeLeaves ==
    ASSUME TypeInv, NEW s \in Sessions, StoreCommand(s) \/ Leave(s)
    PROVE  TypeInv'
<1>1. page' \in [Sessions -> Page] /\ PagesOK'
  BY EndsDoes, EndedOK, PagesStayOK DEF StoreCommand, Leave
<1>2. file' \in File \cup {None}
  BY WriteOK, TypeHas DEF StoreCommand, Leave
<1> QED
  BY <1>1, <1>2, TypeFrame, TypeHas DEF StoreCommand, Leave, ghosts, counters

LEMMA RenewedIs ==
    ASSUME NEW k \in Keys, NEW n \in Nat, n < MaxRestarts, k[2] <= n
    PROVE  Renewed(k) \in Keys /\ Renewed(k)[2] <= n + 1
<1>1. k[1] \in Sessions \cup {"configured"} /\ k[2] \in 0 .. MaxRestarts
  BY DEF Keys
<1>2. k[2] + 1 \in 0 .. MaxRestarts /\ k[2] + 1 <= n + 1
  BY <1>1, PublicationAssumption
<1> QED
  BY <1>1, <1>2 DEF Keys, Renewed

LEMMA TypeAround ==
    ASSUME TypeInv,
           \/ \E s \in Sessions : EmptyState(s) /\ current' \in [Reports -> Texts]
           \/ \E s \in Sessions : NewSession(s)
           \/ KeyReplaced
           \/ CaseChanges
    PROVE  TypeInv'
<1>1. ASSUME NEW s \in Sessions, EmptyState(s), current' \in [Reports -> Texts]
      PROVE  TypeInv'
  <2>1. key[s] \in Keys /\ NoRecords \in Records
    BY DEF TypeInv, TypeOK, NoRecords, Records
  <2>2. file' \in File
    BY <1>1, <2>1 DEF EmptyState, File
  <2> QED
    BY <1>1, <2>2 DEF EmptyState, ghosts, counters, TypeInv, TypeOK, PagesOK, KeysOK
<1>2. ASSUME NEW s \in Sessions, NewSession(s)
      PROVE  TypeInv'
  <2>1. page' \in [Sessions -> Page] /\ PagesOK'
    BY <1>2, EndsDoes, EndedOK, PagesStayOK DEF NewSession
  <2>2. restarts \in Nat /\ restarts' = restarts + 1 /\ restarts' \in 0 .. MaxRestarts
    BY <1>2, PublicationAssumption DEF NewSession, TypeInv, TypeOK
  <2>3. \A t \in Sessions : key[t] \in Keys /\ key[t][2] \in 0 .. restarts
    BY <2>2 DEF TypeInv, TypeOK, KeysOK, Keys
  <2>4. \A t \in Sessions : Renewed(key[t]) \in Keys /\ Renewed(key[t])[2] <= restarts + 1
    BY <1>2, <2>2, <2>3, RenewedIs DEF NewSession
  <2>5. key' = [key EXCEPT ![s] = Renewed(key[s])]
    BY <1>2 DEF NewSession
  <2>6. key' \in [Sessions -> Keys] /\ KeysOK'
    BY <2>2, <2>3, <2>4, <2>5 DEF TypeInv, TypeOK, KeysOK
  <2> QED
    BY <1>2, <2>1, <2>2, <2>6 DEF NewSession, ghosts, TypeInv, TypeOK
<1>3. CASE KeyReplaced
  <2>1. NoPage \in Page
    BY DEF NoPage, NoRecords, Page, Records
  <2>2. page' \in [Sessions -> Page] /\ PagesOK'
    BY <1>3, <2>1, EndedOK DEF KeyReplaced, PagesOK
  <2>3. restarts \in Nat /\ restarts' = restarts + 1 /\ restarts' \in 0 .. MaxRestarts
    BY <1>3, PublicationAssumption DEF KeyReplaced, TypeInv, TypeOK
  <2>4. \A t \in Sessions : key[t] \in Keys /\ key[t][2] \in 0 .. restarts
    BY <2>3 DEF TypeInv, TypeOK, KeysOK, Keys
  <2>5. \A t \in Sessions : Renewed(key[t]) \in Keys /\ Renewed(key[t])[2] <= restarts + 1
    BY <1>3, <2>3, <2>4, RenewedIs DEF KeyReplaced
  <2>6. key' \in [Sessions -> Keys] /\ KeysOK'
    BY <1>3, <2>3, <2>5 DEF KeyReplaced, KeysOK
  <2> QED
    BY <1>3, <2>2, <2>3, <2>6 DEF KeyReplaced, ghosts, TypeInv, TypeOK
<1>4. CASE CaseChanges
  BY <1>4 DEF CaseChanges, ghosts, counters, TypeInv, TypeOK, PagesOK, KeysOK
<1> QED
  BY <1>1, <1>2, <1>3, <1>4

LEMMA TypeInit == Init => TypeInv
<1> SUFFICES ASSUME Init PROVE TypeInv
  OBVIOUS
<1>1. NoPage \in Page /\ PageOK(NoPage)
  BY EndedOK DEF NoPage, NoRecords, Page, Records
<1>2. page \in [Sessions -> Page] /\ PagesOK
  BY <1>1 DEF Init, PagesOK
<1>3. 0 \in 0 .. MaxRestarts /\ 0 \in 0 .. MaxFaults
  BY PublicationAssumption
<1>4. key \in [Sessions -> Keys]
  BY <1>3 DEF Init, Keys
<1>5. KeysOK
  BY DEF Init, KeysOK
<1> QED
  BY <1>2, <1>3, <1>4, <1>5 DEF Init, TypeInv, TypeOK

LEMMA TypeStep == TypeInv /\ [Next]_vars => TypeInv'
<1> SUFFICES ASSUME TypeInv, [Next]_vars PROVE TypeInv'
  OBVIOUS
<1>1. ASSUME NEW s \in Sessions, PageStep(s)
      PROVE  TypeInv'
  BY <1>1, TypeOpenPage, TypeLoad, TypeSave, TypeSaveFails, TypeCommands, TypeLeaves DEF PageStep
<1>2. CASE UNCHANGED vars
  BY <1>2 DEF vars, ghosts, counters, TypeInv, TypeOK, PagesOK, KeysOK
<1> QED
  BY <1>1, <1>2, TypeAround DEF Next

\* The state is one the program can be in; of a record, in the store or in a
\* page, every field is set.
THEOREM TypeCorrect == Spec => []TypeOK
<1>1. TypeInv => TypeOK
  BY DEF TypeInv
<1> QED
  BY <1>1, TypeInit, TypeStep, PTL DEF Spec

-----------------------------------------------------------------------------
(* Whatever a client is shown was approved. *)

LEMMA OkaySync ==
    ASSUME NEW A, NEW r, NEW rec \in Record \cup {None}, NEW text \in Texts, Okay(A, r, rec)
    PROVE  Okay(A, r, SyncDraft(rec, text))
<1>1. CASE rec = None
  BY <1>1, SyncDraftIs, NewRecordIs, ZenonT(60) DEF Okay
<1>2. CASE rec # None /\ rec.draft = text
  BY <1>2, SyncDraftIs
<1>3. CASE rec # None /\ rec.draft # text
  BY <1>3, SyncDraftIs DEF Okay
<1> QED
  BY <1>1, <1>2, <1>3

LEMMA OkaySyncAll ==
    ASSUME NEW A, NEW records \in Records, NEW texts \in [Reports -> Texts], AllOkay(A, records)
    PROVE  AllOkay(A, SyncDrafts(records, texts))
BY OkaySync, SyncDraftsAre DEF AllOkay, Records

LEMMA NothingOkay == \A A : AllOkay(A, NoRecords) /\ AllOkay(A, NoPage.records)
BY DEF AllOkay, NoRecords, NoPage, Okay

\* More approvals do no harm.
LEMMA OkayGrows ==
    ASSUME NEW A, NEW B, A \subseteq B, NEW records, AllOkay(A, records)
    PROVE  AllOkay(B, records)
BY DEF AllOkay, Okay

\* One record is replaced.
LEMMA OkayCommand ==
    ASSUME NEW A, NEW records \in [Reports -> Record], AllOkay(A, records),
           NEW r \in Reports, NEW rec, Okay(A, r, rec)
    PROVE  AllOkay(A, [records EXCEPT ![r] = rec])
BY DEF AllOkay

\* A step after which the page of s has such records, and so has the store.
LEMMA OkayFrame ==
    ASSUME ApprovalInv, NEW s \in Sessions, NEW p, PageBecomes(s, p),
           approvals \subseteq approvals', AllOkay(approvals', p.records),
           file' = file \/ Write(s)
    PROVE  RecordsOkay'
<1>1. ASSUME NEW t \in Sessions PROVE AllOkay(approvals', page'[t].records)
  BY <1>1, OkayGrows DEF ApprovalInv, RecordsOkay, PageBecomes
<1>2. AllOkay(approvals', Stored')
  <2>1. CASE file' = file
    BY <2>1, OkayGrows DEF ApprovalInv, RecordsOkay, Stored
  <2>2. CASE Write(s)
    <3>1. file' # None
      BY <2>2, WriteOK, NoneAssumption DEF ApprovalInv
    <3>2. Stored' = page[s].records
      BY <2>2, <3>1 DEF Write, Stored
    <3> QED
      BY <3>2, OkayGrows DEF ApprovalInv, RecordsOkay
  <2> QED
    BY <2>1, <2>2
<1> QED
  BY <1>1, <1>2 DEF RecordsOkay

LEMMA OkayEnds ==
    ASSUME ApprovalInv, NEW s \in Sessions, Ends(s), approvals' = approvals,
           file' = file \/ Write(s)
    PROVE  RecordsOkay'
BY EndsDoes, NothingOkay, OkayFrame DEF ApprovalInv

LEMMA OkayPages ==
    ASSUME ApprovalInv, NEW s \in Sessions,
           \/ OpenPage(s) \/ LoadLocal(s) \/ LoadCloud(s) \/ Save(s) \/ SaveFails(s)
           \/ StoreCommand(s) \/ Leave(s)
    PROVE  RecordsOkay'
<1>0. TypeInv /\ AllOkay(approvals, page[s].records) /\ AllOkay(approvals, Stored)
  BY DEF ApprovalInv, RecordsOkay
<1>1. CASE OpenPage(s)
  <2> DEFINE p == [pc |-> "load", reports |-> current, records |-> page[s].records]
  <2>1. PageBecomes(s, p) /\ p.records = page[s].records
    BY <1>0, <1>1, OpenPageDoes
  <2> HIDE DEF p
  <2> QED
    BY <1>0, <1>1, <2>1, OkayFrame DEF OpenPage, ghosts
<1>2. CASE LoadLocal(s) \/ LoadCloud(s)
  <2>1. PICK records \in {Stored, NoRecords} : Loaded(s, records) \/ Ends(s)
    BY <1>2 DEF LoadLocal, LoadCloud
  <2>2. records \in Records /\ AllOkay(approvals, records)
    BY <1>0, <2>1, StoredIs, NothingOkay DEF TypeInv
  <2>3. approvals' = approvals /\ file' = file /\ page[s].pc = "load"
    BY <1>2 DEF LoadLocal, LoadCloud, ghosts, At
  <2>4. CASE Loaded(s, records)
    <3> DEFINE p == [pc |-> "save", reports |-> page[s].reports,
                     records |-> SyncDrafts(records, page[s].reports)]
    <3>1. page[s].reports \in [Reports -> Texts] /\ PageBecomes(s, p)
      BY <1>0, <2>2, <2>3, <2>4, LoadDoes
    <3>2. p.records = SyncDrafts(records, page[s].reports)
      OBVIOUS
    <3> HIDE DEF p
    <3>3. AllOkay(approvals, p.records)
      BY <2>2, <3>1, <3>2, OkaySyncAll
    <3> QED
      BY <2>3, <3>1, <3>3, OkayFrame
  <2>5. CASE Ends(s)
    BY <2>3, <2>5, OkayEnds
  <2> QED
    BY <2>1, <2>4, <2>5
<1>3. CASE Save(s)
  <2> DEFINE p == [pc |-> "open", reports |-> page[s].reports, records |-> page[s].records]
  <2>1. PageBecomes(s, p) /\ p.records = page[s].records
    BY <1>0, <1>3, SaveDoes
  <2> HIDE DEF p
  <2> QED
    BY <1>0, <1>3, <2>1, OkayFrame DEF Save, ghosts
<1>4. CASE SaveFails(s)
  BY <1>4, OkayEnds DEF SaveFails, ghosts
<1>5. CASE StoreCommand(s)
  BY <1>5, OkayEnds DEF StoreCommand, ghosts
<1>6. CASE Leave(s)
  BY <1>6, OkayEnds DEF Leave, ghosts
<1> QED
  BY <1>1, <1>2, <1>3, <1>4, <1>5, <1>6

LEMMA OkayCommands ==
    ASSUME ApprovalInv, NEW s \in Sessions, NEW r \in Reports,
           SendToReview(s, r) \/ ApproveReport(s, r) \/ PublishReport(s, r) \/ RevokeReport(s, r)
    PROVE  RecordsOkay'
<1> DEFINE rec == page[s].records[r]
           text == page[s].reports[r]
<1>1. TypeInv
  BY DEF ApprovalInv
<1>2. page[s].pc = "open" /\ rec \in Record /\ text \in Texts
  BY <1>1, CommandIs
<1>3. page[s].records \in [Reports -> Record] /\ AllOkay(approvals, page[s].records)
  BY <1>1, <1>2, TypeHas DEF ApprovalInv, RecordsOkay
<1>4. Okay(approvals, r, rec) /\ rec # None
  BY <1>2, <1>3, RecordHas DEF AllOkay
<1>5. ASSUME NEW new \in Record, Command(s, r, new), approvals \subseteq approvals',
             Okay(approvals', r, new)
      PROVE  RecordsOkay'
  <2> DEFINE p == [pc |-> "store", reports |-> page[s].reports,
                   records |-> [page[s].records EXCEPT ![r] = new]]
  <2>1. PageBecomes(s, p)
    BY <1>1, <1>2, <1>5, CommandDoes
  <2>2. AllOkay(approvals', page[s].records)
    BY <1>3, <1>5, OkayGrows
  <2>3. AllOkay(approvals', p.records)
    BY <1>3, <1>5, <2>2, OkayCommand
  <2>4. file' = file
    BY <1>5 DEF Command
  <2> HIDE DEF p
  <2> QED
    BY <1>5, <2>1, <2>3, <2>4, OkayFrame
<1>6. CASE SendToReview(s, r)
  <2> DEFINE new == [rec EXCEPT !.status = "IN_REVIEW"]
  <2>1. Command(s, r, new) /\ approvals' = approvals
    BY <1>1, <1>6, CommandIs DEF SendToReview, ghosts
  <2>2. new \in Record /\ new.status = "IN_REVIEW" /\ new.snapshot = rec.snapshot
    BY <1>2, SentRecord DEF Statuses
  <2> HIDE DEF new
  <2>3. Okay(approvals', r, new)
    BY <1>4, <2>1, <2>2 DEF Okay
  <2> QED
    BY <1>5, <2>1, <2>2, <2>3
<1>7. CASE ApproveReport(s, r)
  <2> DEFINE new == [rec EXCEPT !.status = "APPROVED"]
  <2>1. Command(s, r, new) /\ approvals' = approvals \cup {<<r, rec.draft>>}
    BY <1>1, <1>7, CommandIs DEF ApproveReport
  <2>2. new \in Record /\ new.draft = rec.draft /\ new.snapshot = rec.snapshot
    BY <1>2, SentRecord DEF Statuses
  <2> HIDE DEF new
  <2>3. Okay(approvals', r, new)
    BY <1>4, <2>1, <2>2 DEF Okay
  <2> QED
    BY <1>5, <2>1, <2>2, <2>3
<1>8. CASE PublishReport(s, r)
  <2> DEFINE new == Published(rec, text)
  <2>1. Command(s, r, new) /\ approvals' = approvals
    BY <1>1, <1>8, CommandIs DEF PublishReport
  <2>2. new \in Record /\ new.status = "PUBLISHED" /\ new.snapshot = text
    BY <1>2, PublishedRecord
  <2>3. rec.status = "APPROVED" /\ rec.draft = text
    BY <1>8 DEF PublishReport, Publishable
  <2> HIDE DEF new
  <2>4. Okay(approvals', r, new)
    BY <1>4, <2>1, <2>2, <2>3 DEF Okay
  <2> QED
    BY <1>5, <2>1, <2>2, <2>4
<1>9. CASE RevokeReport(s, r)
  <2> DEFINE new == Revoked(rec)
  <2>1. Command(s, r, new) /\ approvals' = approvals
    BY <1>1, <1>9, CommandIs DEF RevokeReport, ghosts
  <2>2. new \in Record /\ new.status = "REVOKED" /\ new.snapshot = rec.snapshot
    BY <1>2, RevokedRecord
  <2> HIDE DEF new
  <2>3. Okay(approvals', r, new)
    BY <1>4, <2>1, <2>2 DEF Okay
  <2> QED
    BY <1>5, <2>1, <2>2, <2>3
<1> QED
  BY <1>6, <1>7, <1>8, <1>9

LEMMA OkayAround ==
    ASSUME ApprovalInv,
           \/ \E s \in Sessions : EmptyState(s) /\ current' \in [Reports -> Texts]
           \/ \E s \in Sessions : NewSession(s)
           \/ KeyReplaced
           \/ CaseChanges
           \/ UNCHANGED vars
    PROVE  RecordsOkay'
<1>1. ASSUME NEW s \in Sessions, EmptyState(s)
      PROVE  RecordsOkay'
  <2>1. key[s] \in Keys /\ NoRecords \in Records
    BY DEF ApprovalInv, TypeInv, TypeOK, NoRecords, Records
  <2>2. file' \in File /\ file'.records = NoRecords
    BY <1>1, <2>1 DEF EmptyState, File
  <2>3. Stored' = NoRecords
    BY <2>2, NoneAssumption DEF Stored
  <2> QED
    BY <1>1, <2>3, NothingOkay DEF EmptyState, ghosts, ApprovalInv, RecordsOkay
<1>2. ASSUME NEW s \in Sessions, NewSession(s)
      PROVE  RecordsOkay'
  BY <1>2, OkayEnds DEF NewSession, ghosts
<1>3. CASE KeyReplaced
  <2>1. \A s \in Sessions : page'[s] = NoPage
    BY <1>3 DEF KeyReplaced
  <2>2. AllOkay(approvals', Stored')
    BY <1>3 DEF KeyReplaced, ghosts, ApprovalInv, RecordsOkay, Stored
  <2> QED
    BY <2>1, <2>2, NothingOkay DEF RecordsOkay
<1>4. CASE CaseChanges
  BY <1>4 DEF CaseChanges, ghosts, ApprovalInv, RecordsOkay, Stored
<1>5. CASE UNCHANGED vars
  BY <1>5 DEF vars, ghosts, ApprovalInv, RecordsOkay, Stored
<1> QED
  BY <1>1, <1>2, <1>3, <1>4, <1>5

LEMMA ApprovalStep == ApprovalInv /\ [Next]_vars => ApprovalInv'
<1> SUFFICES ASSUME ApprovalInv, [Next]_vars PROVE ApprovalInv'
  OBVIOUS
<1>1. TypeInv'
  BY TypeStep DEF ApprovalInv
<1>2. ASSUME NEW s \in Sessions, PageStep(s)
      PROVE  RecordsOkay'
  BY <1>2, OkayPages, OkayCommands DEF PageStep
<1>3. RecordsOkay'
  BY <1>2, OkayAround DEF Next
<1> QED
  BY <1>1, <1>3 DEF ApprovalInv

LEMMA ApprovalInit == Init => ApprovalInv
<1> SUFFICES ASSUME Init PROVE ApprovalInv
  OBVIOUS
<1>1. \A s \in Sessions : page[s] = NoPage
  BY DEF Init
<1>2. Stored = NoRecords
  BY DEF Init, Stored
<1> QED
  BY <1>1, <1>2, TypeInit, NothingOkay DEF ApprovalInv, RecordsOkay

\* Whatever a client is shown was approved, in that text and for that report,
\* however pages overlap and whatever is lost.
THEOREM ShownApproved == Spec => []ShownWasApproved
<1>1. ApprovalInv => ShownWasApproved
  BY DEF ApprovalInv, RecordsOkay, AllOkay, Okay, ShownWasApproved, Visible, Shown
<1> QED
  BY <1>1, ApprovalInit, ApprovalStep, PTL DEF Spec

-----------------------------------------------------------------------------
(* One page at a time: numbers, snapshots and the promise.                 *)

Alone ==
    \A s, t \in Sessions : (page[s].pc # "idle" /\ page[t].pc # "idle") => s = t

\* What ReportPromise allows one report to do, said of its records.
Moves(old, new) ==
    \/ Standing(new) = Standing(old) /\ Shown(new) = Shown(old)
    \/ Standing(old) = None /\ Standing(new) \in Texts /\ Shown(new) = Shown(old)
    \/ Standing(new) = None /\ Shown(new) = Shown(old)
    \/ Standing(old) # None /\ Standing(new) = None /\ Shown(new) = Standing(old)
    \/ Standing(new) = None /\ Shown(new) = None

\* A record is never lost, a changed draft has a new number, a snapshot stays.
Follows(old, new) ==
    old # None =>
        /\ new # None
        /\ \/ new.revision > old.revision
           \/ new.revision = old.revision /\ new.draft = old.draft
        /\ old.snapshot # None => new.snapshot # None

\* The records of a page that is going to write them.
InStep(s) ==
    /\ page[s].pc = "open" => page[s].records = Stored
    /\ page[s].pc \in {"save", "store"} =>
          \A r \in Reports :
             /\ Moves(Stored[r], page[s].records[r])
             /\ backend = "cloud" => Follows(Stored[r], page[s].records[r])

\* What was published, E, is not younger than the records.
NumberedIn(E, records) ==
    \A e \in E :
        /\ records[e[1]] # None
        /\ \/ e[2] < records[e[1]].revision
           \/ e[2] = records[e[1]].revision /\ e[3] = records[e[1]].draft
OneText(E) == \A a, b \in E : (a[1] = b[1] /\ a[2] = b[2]) => a[3] = b[3]
Numbered == backend = "cloud" => NumberedIn(editions, Stored) /\ OneText(editions)

SoloInv == TypeInv /\ Alone /\ (\A s \in Sessions : InStep(s)) /\ Numbered

LEMMA StaysInStep ==
    ASSUME NEW rec \in Record \cup {None}
    PROVE  Moves(rec, rec) /\ Follows(rec, rec)
<1>1. Moves(rec, rec)
  BY DEF Moves
<1>2. Follows(rec, rec)
  BY DEF Follows
<1> QED
  BY <1>1, <1>2

LEMMA StartsAfresh ==
    ASSUME NEW rec, NEW text \in Texts
    PROVE  Moves(rec, NewRecord(text)) /\ Moves(rec, None)
<1>1. Standing(NewRecord(text)) = None /\ Shown(NewRecord(text)) = None
  BY NewRecordIs DEF Standing, Shown
<1>2. Standing(None) = None /\ Shown(None) = None
  BY DEF Standing, Shown
<1> QED
  BY <1>1, <1>2 DEF Moves

LEMMA SyncInStep ==
    ASSUME NEW rec \in Record \cup {None}, NEW text \in Texts
    PROVE  Moves(rec, SyncDraft(rec, text)) /\ Follows(rec, SyncDraft(rec, text))
<1>1. CASE rec = None
  BY <1>1, SyncDraftIs, StartsAfresh DEF Follows
<1>2. CASE rec # None /\ rec.draft = text
  BY <1>2, SyncDraftIs, StaysInStep
<1>3. CASE rec # None /\ rec.draft # text
  <2> DEFINE new == SyncDraft(rec, text)
  <2>1. /\ new \in Record /\ new # None /\ new.status = "DRAFT" /\ new.snapshot = rec.snapshot
        /\ new.revoked = rec.revoked /\ new.revision = rec.revision + 1
        /\ rec.revision \in Nat
    BY <1>3, SyncDraftIs, RecordHas
  <2> HIDE DEF new
  <2>2. Standing(new) = None /\ Shown(new) = Shown(rec)
    BY <1>3, <2>1 DEF Standing, Shown
  <2>3. Follows(rec, new)
    BY <1>3, <2>1 DEF Follows
  <2> QED
    BY <2>2, <2>3 DEF Moves, new
<1> QED
  BY <1>1, <1>2, <1>3

LEMMA SentInStep ==
    ASSUME NEW rec \in Record, rec.status \in {"DRAFT", "REVOKED"}
    PROVE  /\ Moves(rec, [rec EXCEPT !.status = "IN_REVIEW"])
           /\ Follows(rec, [rec EXCEPT !.status = "IN_REVIEW"])
<1> DEFINE new == [rec EXCEPT !.status = "IN_REVIEW"]
<1>1. /\ new.status = "IN_REVIEW" /\ new.draft = rec.draft /\ new.revision = rec.revision
      /\ new.snapshot = rec.snapshot /\ new.revoked = rec.revoked /\ new # None /\ rec # None
  BY SentRecord, RecordHas DEF Statuses
<1> HIDE DEF new
<1>2. Moves(rec, new)
  BY <1>1 DEF Moves, Standing, Shown
<1>3. Follows(rec, new)
  BY <1>1 DEF Follows
<1> QED
  BY <1>2, <1>3 DEF new

LEMMA ApprovedInStep ==
    ASSUME NEW rec \in Record, rec.status = "IN_REVIEW"
    PROVE  /\ Moves(rec, [rec EXCEPT !.status = "APPROVED"])
           /\ Follows(rec, [rec EXCEPT !.status = "APPROVED"])
<1> DEFINE new == [rec EXCEPT !.status = "APPROVED"]
<1>1. /\ new.status = "APPROVED" /\ new.draft = rec.draft /\ new.revision = rec.revision
      /\ new.snapshot = rec.snapshot /\ new.revoked = rec.revoked /\ new # None /\ rec # None
      /\ rec.draft \in Texts
  BY SentRecord, RecordHas DEF Statuses
<1> HIDE DEF new
<1>2. Moves(rec, new)
  BY <1>1 DEF Moves, Standing, Shown
<1>3. Follows(rec, new)
  BY <1>1 DEF Follows
<1> QED
  BY <1>2, <1>3 DEF new

LEMMA PublishedInStep ==
    ASSUME NEW rec \in Record, NEW text \in Texts, Publishable(rec, text)
    PROVE  Moves(rec, Published(rec, text)) /\ Follows(rec, Published(rec, text))
<1> DEFINE new == Published(rec, text)
<1>1. /\ new.status = "PUBLISHED" /\ new.draft = rec.draft /\ new.revision = rec.revision
      /\ new.snapshot = text /\ new.revoked = FALSE /\ new # None /\ rec # None
      /\ rec.status = "APPROVED" /\ rec.draft = text /\ text # None
  BY PublishedRecord, RecordHas, PublicationAssumption DEF Publishable
<1> HIDE DEF new
<1>2. Moves(rec, new)
  BY <1>1 DEF Moves, Standing, Shown
<1>3. Follows(rec, new)
  BY <1>1 DEF Follows
<1> QED
  BY <1>2, <1>3 DEF new

LEMMA RevokedInStep ==
    ASSUME NEW rec \in Record
    PROVE  Moves(rec, Revoked(rec)) /\ Follows(rec, Revoked(rec))
<1> DEFINE new == Revoked(rec)
<1>1. /\ new.status = "REVOKED" /\ new.draft = rec.draft /\ new.revision = rec.revision
      /\ new.snapshot = rec.snapshot /\ new.revoked = TRUE /\ new # None /\ rec # None
  BY RevokedRecord, RecordHas
<1> HIDE DEF new
<1>2. Moves(rec, new)
  BY <1>1 DEF Moves, Standing, Shown
<1>3. Follows(rec, new)
  BY <1>1 DEF Follows
<1> QED
  BY <1>2, <1>3 DEF new

-----------------------------------------------------------------------------
(* The numbers of what was published. *)

LEMMA NumberedFollows ==
    ASSUME NEW E \in SUBSET (Reports \X Nat \X Texts), NEW old \in Records, NEW new \in Records,
           NumberedIn(E, old), \A r \in Reports : Follows(old[r], new[r])
    PROVE  NumberedIn(E, new)
<1> SUFFICES ASSUME NEW e \in E
             PROVE  /\ new[e[1]] # None
                    /\ \/ e[2] < new[e[1]].revision
                       \/ e[2] = new[e[1]].revision /\ e[3] = new[e[1]].draft
  BY DEF NumberedIn
<1> DEFINE a == old[e[1]]
           b == new[e[1]]
<1>1. e[1] \in Reports /\ e[2] \in Nat
  OBVIOUS
<1>2. a # None /\ (e[2] < a.revision \/ (e[2] = a.revision /\ e[3] = a.draft))
  BY DEF NumberedIn
<1>3. /\ b # None
      /\ b.revision > a.revision \/ (b.revision = a.revision /\ b.draft = a.draft)
  BY <1>1, <1>2 DEF Follows
<1>4. a \in Record /\ b \in Record
  BY <1>1, <1>2, <1>3 DEF Records
<1>5. a.revision \in Nat /\ b.revision \in Nat
  BY <1>4, RecordHas
<1> HIDE DEF a, b
<1>6. e[2] < b.revision \/ (e[2] = b.revision /\ e[3] = b.draft)
  BY <1>1, <1>2, <1>3, <1>5
<1> QED
  BY <1>3, <1>6 DEF b

\* Publishing the draft that the store has.
LEMMA NumberedPublished ==
    ASSUME NEW E \in SUBSET (Reports \X Nat \X Texts), NEW records \in Records,
           NumberedIn(E, records), OneText(E), NEW r \in Reports, records[r] \in Record,
           NEW n, NEW text, n = records[r].revision, text = records[r].draft
    PROVE  NumberedIn(E \cup {<<r, n, text>>}, records) /\ OneText(E \cup {<<r, n, text>>})
<1> DEFINE e == <<r, n, text>>
<1>1. records[r] # None /\ n \in Nat /\ e[1] = r /\ e[2] = n /\ e[3] = text
  BY RecordHas
<1> HIDE DEF e
<1>2. NumberedIn(E \cup {e}, records)
  BY <1>1 DEF NumberedIn
<1>3. ASSUME NEW a \in E, a[1] = r, a[2] = n
      PROVE  a[3] = text
  BY <1>1, <1>3 DEF NumberedIn
<1>4. OneText(E \cup {e})
  BY <1>1, <1>3 DEF OneText
<1> QED
  BY <1>2, <1>4 DEF e

-----------------------------------------------------------------------------
(* One step of one page at a time. *)

\* A step leaves the file as it is or stores the records of a page.
FileStep(s) == file' = file \/ (Write(s) /\ page[s].pc \in {"save", "store"})

\* What a step makes of the records in the store.
StoreMoves ==
    \A r \in Reports : /\ Moves(Stored[r], Stored'[r])
                       /\ backend = "cloud" => Follows(Stored[r], Stored'[r])

LEMMA WriteStores ==
    ASSUME TypeInv, NEW s \in Sessions, Write(s)
    PROVE  Stored' = page[s].records
<1>1. file' # None
  BY WriteOK, NoneAssumption
<1> QED
  BY <1>1 DEF Write, Stored

LEMMA StoreStep ==
    ASSUME SoloInv, NEW s \in Sessions, FileStep(s)
    PROVE  StoreMoves
<1>1. CASE file' = file
  <2>1. Stored' = Stored /\ \A r \in Reports : Stored[r] \in Record \cup {None}
    BY <1>1, StoredIs DEF Stored, SoloInv, TypeInv, Records
  <2> QED
    BY <2>1, StaysInStep DEF StoreMoves
<1>2. CASE Write(s) /\ page[s].pc \in {"save", "store"}
  BY <1>2, WriteStores DEF SoloInv, InStep, StoreMoves
<1> QED
  BY <1>1, <1>2 DEF FileStep

LEMMA NumberedStays ==
    ASSUME SoloInv, TypeInv', StoreMoves, backend' = backend, editions' = editions
    PROVE  Numbered'
<1>1. editions \in SUBSET (Reports \X Nat \X Texts) /\ Stored \in Records /\ Stored' \in Records
  BY StoredIs, TypeHas DEF SoloInv, TypeInv, TypeOK, Stored, File, NoRecords, Records
<1>2. ASSUME backend = "cloud"
      PROVE  NumberedIn(editions, Stored') /\ OneText(editions)
  BY <1>1, <1>2, NumberedFollows DEF SoloInv, Numbered, StoreMoves
<1> QED
  BY <1>2 DEF Numbered

\* The page of s becomes p.
LEMMA SoloFrame ==
    ASSUME SoloInv, NEW s \in Sessions, NEW p, PageBecomes(s, p), backend' = backend, FileStep(s),
           \/ page[s].pc # "idle" \/ (\A t \in Sessions : page[t].pc = "idle")
           \/ p.pc = "idle" /\ file' = file,
           p.pc = "open" => p.records = Stored',
           p.pc \in {"save", "store"} =>
              \A r \in Reports : /\ Moves(Stored'[r], p.records[r])
                                 /\ backend = "cloud" => Follows(Stored'[r], p.records[r])
    PROVE  Alone' /\ \A t \in Sessions : InStep(t)'
<1>1. Alone'
  BY DEF SoloInv, Alone, PageBecomes
<1>2. InStep(s)'
  BY DEF InStep, PageBecomes
<1>3. ASSUME NEW t \in Sessions \ {s}
      PROVE  InStep(t)'
  <2>1. page'[t] = page[t] /\ InStep(t)
    BY DEF PageBecomes, SoloInv
  <2>2. CASE file' = file
    BY <2>1, <2>2 DEF InStep, Stored
  <2>3. CASE file' # file
    <3>1. page[t].pc = "idle"
      BY <1>3, <2>3 DEF SoloInv, Alone
    <3> QED
      BY <2>1, <3>1 DEF InStep
  <2> QED
    BY <2>2, <2>3
<1> QED
  BY <1>1, <1>2, <1>3

\* What is to be shown of a step that publishes nothing.
SoloStepIs == backend' = backend /\ Alone' /\ (\A t \in Sessions : InStep(t)') /\ StoreMoves

LEMMA SoloEnds ==
    ASSUME SoloInv, NEW s \in Sessions, Ends(s), backend' = backend, FileStep(s),
           page[s].pc # "idle" \/ file' = file
    PROVE  SoloStepIs
<1>1. PageBecomes(s, NoPage) /\ NoPage.pc = "idle"
  BY EndsDoes DEF SoloInv, NoPage
<1>2. StoreMoves
  BY StoreStep
<1>3. Alone' /\ \A t \in Sessions : InStep(t)'
  BY <1>1, SoloFrame
<1> QED
  BY <1>2, <1>3 DEF SoloStepIs

\* What a page makes of the records it loads.
LEMMA LoadInStep ==
    ASSUME TypeInv, NEW records \in Records, NEW texts \in [Reports -> Texts],
           records = Stored \/ (records = NoRecords /\ backend # "cloud"), NEW r \in Reports
    PROVE  /\ Moves(Stored[r], SyncDrafts(records, texts)[r])
           /\ backend = "cloud" => Follows(Stored[r], SyncDrafts(records, texts)[r])
<1>1. /\ records[r] \in Record \cup {None} /\ texts[r] \in Texts
      /\ SyncDrafts(records, texts)[r] = SyncDraft(records[r], texts[r])
  BY SyncDraftsAre DEF Records
<1>2. CASE records = Stored
  BY <1>1, <1>2, SyncInStep
<1>3. CASE records = NoRecords /\ backend # "cloud"
  <2>1. records[r] = None
    BY <1>3 DEF NoRecords
  <2>2. SyncDraft(records[r], texts[r]) = NewRecord(texts[r])
    BY <2>1 DEF SyncDraft
  <2> QED
    BY <1>1, <1>3, <2>2, StartsAfresh
<1> QED
  BY <1>2, <1>3

LEMMA SoloPages ==
    ASSUME Overlap = FALSE, SoloInv, NEW s \in Sessions,
           \/ OpenPage(s) \/ LoadLocal(s) \/ LoadCloud(s) \/ Save(s) \/ SaveFails(s)
           \/ StoreCommand(s) \/ Leave(s)
    PROVE  SoloStepIs
<1>0. TypeInv
  BY DEF SoloInv
<1>1. CASE OpenPage(s)
  <2> DEFINE p == [pc |-> "load", reports |-> current, records |-> page[s].records]
  <2>1. PageBecomes(s, p) /\ p.pc = "load"
    BY <1>0, <1>1, OpenPageDoes
  <2> HIDE DEF p
  <2>2. backend' = backend /\ file' = file /\ \A t \in Sessions : page[t].pc = "idle"
    BY <1>1 DEF OpenPage, Quiet
  <2>3. FileStep(s)
    BY <2>2 DEF FileStep
  <2> QED
    BY <2>1, <2>2, <2>3, SoloFrame, StoreStep DEF SoloStepIs
<1>2. CASE LoadLocal(s) \/ LoadCloud(s)
  <2>1. PICK records \in {Stored, NoRecords} :
           /\ Loaded(s, records) \/ Ends(s)
           /\ records = Stored \/ (records = NoRecords /\ backend # "cloud")
    BY <1>2 DEF LoadLocal, LoadCloud
  <2>2. records \in Records
    BY <1>0, <2>1, StoredIs DEF TypeInv
  <2>3. backend' = backend /\ file' = file /\ page[s].pc = "load" /\ FileStep(s)
    BY <1>2 DEF LoadLocal, LoadCloud, At, FileStep
  <2>4. CASE Loaded(s, records)
    <3> DEFINE synced == SyncDrafts(records, page[s].reports)
               p == [pc |-> "save", reports |-> page[s].reports, records |-> synced]
    <3>1. page[s].reports \in [Reports -> Texts] /\ PageBecomes(s, p)
      BY <1>0, <2>2, <2>3, <2>4, LoadDoes
    <3>2. p.pc = "save" /\ p.records = synced
      OBVIOUS
    <3>3. ASSUME NEW r \in Reports
          PROVE  /\ Moves(Stored[r], synced[r])
                 /\ backend = "cloud" => Follows(Stored[r], synced[r])
      BY <1>0, <2>1, <2>2, <3>1, LoadInStep
    <3> HIDE DEF p, synced
    <3>4. Stored' = Stored
      BY <2>3 DEF Stored
    <3>5. Alone' /\ \A t \in Sessions : InStep(t)'
      BY <2>3, <3>1, <3>2, <3>3, <3>4, SoloFrame
    <3> QED
      BY <2>3, <3>5, StoreStep DEF SoloStepIs
  <2>5. CASE Ends(s)
    BY <2>3, <2>5, SoloEnds
  <2> QED
    BY <2>1, <2>4, <2>5
<1>3. CASE Save(s)
  <2> DEFINE p == [pc |-> "open", reports |-> page[s].reports, records |-> page[s].records]
  <2>1. PageBecomes(s, p) /\ p.records = page[s].records /\ p.pc = "open"
    BY <1>0, <1>3, SaveDoes
  <2> HIDE DEF p
  <2>2. backend' = backend /\ page[s].pc = "save" /\ Write(s) /\ FileStep(s)
    BY <1>3 DEF Save, At, FileStep
  <2>3. Stored' = page[s].records
    BY <1>0, <2>2, WriteStores
  <2>4. Alone' /\ \A t \in Sessions : InStep(t)'
    BY <2>1, <2>2, <2>3, SoloFrame
  <2> QED
    BY <2>2, <2>4, StoreStep DEF SoloStepIs
<1>4. CASE SaveFails(s) \/ StoreCommand(s)
  <2>1. backend' = backend /\ Ends(s) /\ FileStep(s) /\ page[s].pc # "idle"
    BY <1>4 DEF SaveFails, StoreCommand, At, FileStep
  <2> QED
    BY <2>1, SoloEnds
<1>5. CASE Leave(s)
  <2>1. backend' = backend /\ Ends(s) /\ FileStep(s) /\ file' = file
    BY <1>5 DEF Leave, FileStep
  <2> QED
    BY <2>1, SoloEnds
<1> QED
  BY <1>1, <1>2, <1>3, <1>4, <1>5

\* A command, on a page that has read what the store has.
LEMMA SoloCommands ==
    ASSUME SoloInv, NEW s \in Sessions, NEW r \in Reports,
           SendToReview(s, r) \/ ApproveReport(s, r) \/ PublishReport(s, r) \/ RevokeReport(s, r)
    PROVE  SoloStepIs /\ Stored' = Stored /\ page[s].records = Stored
<1> DEFINE rec == page[s].records[r]
           text == page[s].reports[r]
<1>1. TypeInv
  BY DEF SoloInv
<1>2. page[s].pc = "open" /\ rec \in Record /\ text \in Texts
  BY <1>1, CommandIs
<1>3. page[s].records = Stored /\ page[s].records \in [Reports -> Record]
  BY <1>1, <1>2, TypeHas DEF SoloInv, InStep
<1>4. \E new \in Record : Command(s, r, new) /\ Moves(rec, new) /\ Follows(rec, new)
  <2>1. CASE SendToReview(s, r)
    <3>1. rec.status \in {"DRAFT", "REVOKED"}
      BY <2>1 DEF SendToReview
    <3>2. [rec EXCEPT !.status = "IN_REVIEW"] \in Record
      BY <1>2, SentRecord DEF Statuses
    <3> QED
      BY <1>1, <1>2, <2>1, <3>1, <3>2, CommandIs, SentInStep
  <2>2. CASE ApproveReport(s, r)
    <3>1. rec.status = "IN_REVIEW"
      BY <2>2 DEF ApproveReport
    <3>2. [rec EXCEPT !.status = "APPROVED"] \in Record
      BY <1>2, SentRecord DEF Statuses
    <3> QED
      BY <1>1, <1>2, <2>2, <3>1, <3>2, CommandIs, ApprovedInStep
  <2>3. CASE PublishReport(s, r)
    <3>1. Publishable(rec, text)
      BY <2>3 DEF PublishReport
    <3> QED
      BY <1>1, <1>2, <2>3, <3>1, CommandIs, PublishedRecord, PublishedInStep
  <2>4. CASE RevokeReport(s, r)
    BY <1>1, <1>2, <2>4, CommandIs, RevokedRecord, RevokedInStep
  <2> QED
    BY <2>1, <2>2, <2>3, <2>4
<1>5. PICK new \in Record : Command(s, r, new) /\ Moves(rec, new) /\ Follows(rec, new)
  BY <1>4
<1>6. backend' = backend /\ file' = file /\ FileStep(s) /\ Stored' = Stored
  BY <1>5 DEF Command, FileStep, Stored
<1> DEFINE p == [pc |-> "store", reports |-> page[s].reports,
                 records |-> [page[s].records EXCEPT ![r] = new]]
<1>7. PageBecomes(s, p)
  BY <1>1, <1>2, <1>5, CommandDoes
<1>8. ASSUME NEW q \in Reports
      PROVE  Moves(Stored[q], p.records[q]) /\ Follows(Stored[q], p.records[q])
  BY <1>3, <1>5, StaysInStep
<1>9. p.pc = "store"
  OBVIOUS
<1> HIDE DEF p
<1>10. Alone' /\ \A t \in Sessions : InStep(t)'
  BY <1>2, <1>6, <1>7, <1>8, <1>9, SoloFrame
<1> QED
  BY <1>3, <1>6, <1>10, StoreStep DEF SoloStepIs

LEMMA SoloPublish ==
    ASSUME SoloInv, NEW s \in Sessions, NEW r \in Reports, PublishReport(s, r)
    PROVE  Numbered'
<1> DEFINE rec == Stored[r]
           text == page[s].reports[r]
<1>1. SoloStepIs /\ Stored' = Stored /\ page[s].records = Stored /\ rec \in Record
  BY SoloCommands, CommandIs DEF SoloInv
<1>2. editions' = editions \cup {<<r, rec.revision, text>>} /\ text = rec.draft
  BY <1>1 DEF PublishReport, Publishable
<1>3. editions \in SUBSET (Reports \X Nat \X Texts) /\ Stored \in Records
  BY StoredIs, TypeHas DEF SoloInv, TypeInv
<1> HIDE DEF rec, text
<1>4. ASSUME backend = "cloud"
      PROVE  NumberedIn(editions', Stored) /\ OneText(editions')
  <2>1. NumberedIn(editions, Stored) /\ OneText(editions)
    BY <1>4 DEF SoloInv, Numbered
  <2>2. rec = Stored[r]
    BY DEF rec
  <2> QED
    BY <1>1, <1>2, <1>3, <2>1, <2>2, NumberedPublished
<1> QED
  BY <1>1, <1>4 DEF Numbered, SoloStepIs

LEMMA SoloAround ==
    ASSUME Overlap = FALSE, SoloInv,
           \/ \E s \in Sessions : EmptyState(s) /\ current' \in [Reports -> Texts]
           \/ \E s \in Sessions : NewSession(s)
           \/ KeyReplaced
           \/ CaseChanges
           \/ UNCHANGED vars
    PROVE  SoloStepIs /\ editions' = editions
<1>1. ASSUME NEW s \in Sessions, EmptyState(s)
      PROVE  SoloStepIs /\ editions' = editions
  <2>1. key[s] \in Keys /\ NoRecords \in Records
    BY DEF SoloInv, TypeInv, TypeOK, NoRecords, Records
  <2>2. file' \in File /\ file'.records = NoRecords
    BY <1>1, <2>1 DEF EmptyState, File
  <2>3. Stored' = NoRecords
    BY <2>2, NoneAssumption DEF Stored
  <2>4. page' = page /\ backend' = backend /\ backend # "cloud" /\ editions' = editions
    BY <1>1 DEF EmptyState, ghosts
  <2>5. \A t \in Sessions : page[t].pc = "idle"
    BY <1>1 DEF EmptyState, Quiet
  <2>6. Alone' /\ \A t \in Sessions : InStep(t)'
    BY <2>4, <2>5 DEF Alone, InStep
  <2>7. ASSUME NEW r \in Reports
        PROVE  Moves(Stored[r], Stored'[r])
    <3>1. Standing(None) = None /\ Shown(None) = None /\ Stored'[r] = None
      BY <2>3 DEF Standing, Shown, NoRecords
    <3> QED
      BY <3>1 DEF Moves
  <2> QED
    BY <2>4, <2>6, <2>7 DEF SoloStepIs, StoreMoves
<1>2. ASSUME NEW s \in Sessions, NewSession(s)
      PROVE  SoloStepIs /\ editions' = editions
  BY <1>2, SoloEnds DEF NewSession, ghosts, FileStep
<1>3. ASSUME backend' = backend, file' = file,
             page' = page \/ \A s \in Sessions : page'[s] = NoPage
      PROVE  SoloStepIs
  <2>1. Stored' = Stored /\ NoPage.pc = "idle"
    BY <1>3 DEF Stored, NoPage
  <2>2. Alone' /\ \A t \in Sessions : InStep(t)'
    BY <1>3, <2>1 DEF SoloInv, Alone, InStep
  <2>3. \A r \in Reports : Stored[r] \in Record \cup {None}
    BY StoredIs DEF SoloInv, TypeInv, Records
  <2>4. StoreMoves
    BY <2>1, <2>3, StaysInStep DEF StoreMoves
  <2> QED
    BY <1>3, <2>2, <2>4 DEF SoloStepIs
<1>4. CASE KeyReplaced
  BY <1>3, <1>4 DEF KeyReplaced, ghosts
<1>5. CASE CaseChanges
  BY <1>3, <1>5 DEF CaseChanges, ghosts
<1>6. CASE UNCHANGED vars
  BY <1>3, <1>6 DEF vars, ghosts
<1> QED
  BY <1>1, <1>2, <1>4, <1>5, <1>6

LEMMA SoloStep ==
    ASSUME Overlap = FALSE
    PROVE  SoloInv /\ [Next]_vars => SoloInv' /\ StoreMoves /\ backend' = backend
<1> SUFFICES ASSUME SoloInv, [Next]_vars PROVE SoloInv' /\ StoreMoves /\ backend' = backend
  OBVIOUS
<1>1. TypeInv'
  BY TypeStep DEF SoloInv
<1>2. ASSUME NEW s \in Sessions, PageStep(s)
      PROVE  SoloStepIs /\ Numbered'
  <2>1. ASSUME SoloStepIs, editions' = editions
        PROVE  Numbered'
    BY <1>1, <2>1, NumberedStays DEF SoloStepIs
  <2>2. CASE \/ OpenPage(s) \/ LoadLocal(s) \/ LoadCloud(s) \/ Save(s) \/ SaveFails(s)
             \/ StoreCommand(s) \/ Leave(s)
    <3>1. editions' = editions
      BY <2>2 DEF OpenPage, LoadLocal, LoadCloud, Save, SaveFails, StoreCommand, Leave, ghosts
    <3> QED
      BY <2>1, <2>2, <3>1, SoloPages
  <2>3. ASSUME NEW r \in Reports, SendToReview(s, r) \/ ApproveReport(s, r) \/ RevokeReport(s, r)
        PROVE  SoloStepIs /\ Numbered'
    <3>1. editions' = editions
      BY <2>3 DEF SendToReview, ApproveReport, RevokeReport, ghosts
    <3> QED
      BY <2>1, <2>3, <3>1, SoloCommands
  <2>4. ASSUME NEW r \in Reports, PublishReport(s, r)
        PROVE  SoloStepIs /\ Numbered'
    BY <2>4, SoloCommands, SoloPublish
  <2> QED
    BY <1>2, <2>2, <2>3, <2>4 DEF PageStep
<1>3. SoloStepIs /\ Numbered'
  <2>1. CASE \E s \in Sessions : PageStep(s)
    BY <1>2, <2>1
  <2>2. CASE \/ \E s \in Sessions : EmptyState(s) /\ current' \in [Reports -> Texts]
             \/ \E s \in Sessions : NewSession(s)
             \/ KeyReplaced
             \/ CaseChanges
             \/ UNCHANGED vars
    BY <1>1, <2>2, SoloAround, NumberedStays DEF SoloStepIs
  <2> QED
    BY <2>1, <2>2 DEF Next
<1> QED
  BY <1>1, <1>3 DEF SoloInv, SoloStepIs

LEMMA SoloInit == Init => SoloInv
<1> SUFFICES ASSUME Init PROVE SoloInv
  OBVIOUS
<1>1. \A s \in Sessions : page[s] = NoPage
  BY DEF Init
<1>2. Alone /\ \A s \in Sessions : InStep(s)
  BY <1>1 DEF Alone, InStep, NoPage
<1>3. Numbered
  BY DEF Init, Numbered, NumberedIn, OneText
<1> QED
  BY <1>2, <1>3, TypeInit DEF SoloInv

\* As long as page runs do not overlap, a revision number that a published
\* report carries stands for one text of that report.
THEOREM RevisionNames == ASSUME Overlap = FALSE PROVE Spec => []RevisionNamesOneText
<1>1. SoloInv => RevisionNamesOneText
  BY DEF SoloInv, Numbered, OneText, RevisionNamesOneText
<1>2. SoloInv /\ [Next]_vars => SoloInv'
  BY SoloStep
<1> QED
  BY <1>1, <1>2, SoloInit, PTL DEF Spec

-----------------------------------------------------------------------------
(* No page drops a snapshot it has found, with any number of pages at once. *)

\* Synchronising a draft, and every command, keep the snapshot of a record.
LEMMA SyncKeepsSnapshot ==
    ASSUME NEW rec \in Record \cup {None}, NEW text \in Texts, HasSnapshot(rec)
    PROVE  HasSnapshot(SyncDraft(rec, text))
<1>1. SyncDraft(rec, text).snapshot = rec.snapshot /\ SyncDraft(rec, text) # None
  BY SyncDraftIs, RecordHas DEF HasSnapshot
<1> QED
  BY <1>1 DEF HasSnapshot

\* Only the page of s changes, and it keeps what it holds.
LEMMA KeptByOne ==
    ASSUME TypeInv, NEW s \in Sessions, NEW p, PageBecomes(s, p), NEW r \in Reports,
           HasSnapshot(IF page[s].pc = "load" THEN Stored[r] ELSE page[s].records[r]) =>
               p.pc \in {"idle", "load"} \/ HasSnapshot(p.records[r])
    PROVE  \A t \in Sessions : KeepsSnapshot(t, r)
BY DEF KeepsSnapshot, At, PageBecomes

\* The pages stay, or those that change have ended.
LEMMA KeptByAll ==
    ASSUME NEW r \in Reports, \A t \in Sessions : page'[t] = page[t] \/ page'[t] = NoPage
    PROVE  \A t \in Sessions : KeepsSnapshot(t, r)
BY DEF KeepsSnapshot, At, NoPage

LEMMA CommandKeepsSnapshot ==
    ASSUME TypeInv, NEW s \in Sessions, NEW q \in Reports, NEW r \in Reports,
           SendToReview(s, q) \/ ApproveReport(s, q) \/ PublishReport(s, q) \/ RevokeReport(s, q)
    PROVE  \A t \in Sessions : KeepsSnapshot(t, r)
<1> DEFINE old == page[s].records[q]
<1>1. page[s].pc = "open" /\ old \in Record /\ page[s].reports[q] \in Texts
  BY CommandIs
<1>2. PICK rec \in Record : Command(s, q, rec) /\ (HasSnapshot(old) => HasSnapshot(rec))
  <2>1. CASE SendToReview(s, q)
    <3> DEFINE new == [old EXCEPT !.status = "IN_REVIEW"]
    <3>1. Command(s, q, new)
      BY <2>1, CommandIs
    <3>2. new \in Record /\ new.snapshot = old.snapshot
      BY <1>1, SentRecord DEF Statuses
    <3> HIDE DEF new
    <3> QED
      BY <3>1, <3>2, RecordHas DEF HasSnapshot
  <2>2. CASE ApproveReport(s, q)
    <3> DEFINE new == [old EXCEPT !.status = "APPROVED"]
    <3>1. Command(s, q, new)
      BY <2>2, CommandIs
    <3>2. new \in Record /\ new.snapshot = old.snapshot
      BY <1>1, SentRecord DEF Statuses
    <3> HIDE DEF new
    <3> QED
      BY <3>1, <3>2, RecordHas DEF HasSnapshot
  <2>3. CASE PublishReport(s, q)
    <3> DEFINE new == Published(old, page[s].reports[q])
    <3>1. Command(s, q, new)
      BY <2>3, CommandIs
    <3>2. new \in Record /\ new.snapshot = page[s].reports[q]
      BY <1>1, PublishedRecord
    <3>3. new.snapshot # None
      BY <1>1, <3>2, PublicationAssumption
    <3> HIDE DEF new
    <3> QED
      BY <3>1, <3>2, <3>3, RecordHas DEF HasSnapshot
  <2>4. CASE RevokeReport(s, q)
    <3> DEFINE new == Revoked(old)
    <3>1. Command(s, q, new)
      BY <2>4, CommandIs
    <3>2. new \in Record /\ new.snapshot = old.snapshot
      BY <1>1, RevokedRecord
    <3> HIDE DEF new
    <3> QED
      BY <3>1, <3>2, RecordHas DEF HasSnapshot
  <2> QED
    BY <2>1, <2>2, <2>3, <2>4
<1> DEFINE p == [pc |-> "store", reports |-> page[s].reports,
                 records |-> [page[s].records EXCEPT ![q] = rec]]
<1>3. PageBecomes(s, p)
  BY <1>1, <1>2, CommandDoes
<1>4. page[s].records \in [Reports -> Record]
  BY <1>1, TypeHas
<1>5. HasSnapshot(page[s].records[r]) => HasSnapshot(p.records[r])
  BY <1>2, <1>4
<1> HIDE DEF p
<1> QED
  BY <1>1, <1>3, <1>5, KeptByOne

LEMMA LoadKeepsSnapshot ==
    ASSUME TypeInv, backend = "cloud", NEW s \in Sessions, NEW r \in Reports,
           LoadLocal(s) \/ LoadCloud(s)
    PROVE  \A t \in Sessions : KeepsSnapshot(t, r)
<1>1. page[s].pc = "load" /\ (Loaded(s, Stored) \/ Ends(s))
  BY DEF LoadLocal, LoadCloud, At
<1>2. CASE Ends(s)
  BY <1>2, EndsDoes, KeptByAll DEF PageBecomes
<1>3. CASE Loaded(s, Stored)
  <2> DEFINE p == [pc |-> "save", reports |-> page[s].reports,
                   records |-> SyncDrafts(Stored, page[s].reports)]
  <2>1. Stored \in Records
    BY StoredIs DEF TypeInv
  <2>2. page[s].reports \in [Reports -> Texts] /\ PageBecomes(s, p)
    BY <1>1, <1>3, <2>1, LoadDoes
  <2>3. Stored[r] \in Record \cup {None} /\ page[s].reports[r] \in Texts
    BY <2>1, <2>2 DEF Records
  <2>4. p.records[r] = SyncDraft(Stored[r], page[s].reports[r])
    BY <2>1, <2>2, SyncDraftsAre
  <2> HIDE DEF p
  <2> QED
    BY <1>1, <2>2, <2>3, <2>4, SyncKeepsSnapshot, KeptByOne
<1> QED
  BY <1>1, <1>2, <1>3

LEMMA PageKeepsSnapshot ==
    ASSUME TypeInv, backend = "cloud", NEW s \in Sessions, NEW r \in Reports, PageStep(s)
    PROVE  \A t \in Sessions : KeepsSnapshot(t, r)
<1>1. CASE OpenPage(s)
  <2> DEFINE p == [pc |-> "load", reports |-> current, records |-> page[s].records]
  <2>1. PageBecomes(s, p)
    BY <1>1, OpenPageDoes
  <2>2. p.pc = "load"
    OBVIOUS
  <2> HIDE DEF p
  <2> QED
    BY <2>1, <2>2, KeptByOne
<1>2. CASE LoadLocal(s) \/ LoadCloud(s)
  BY <1>2, LoadKeepsSnapshot
<1>3. CASE Save(s)
  <2> DEFINE p == [pc |-> "open", reports |-> page[s].reports, records |-> page[s].records]
  <2>1. PageBecomes(s, p)
    BY <1>3, SaveDoes
  <2>2. page[s].pc = "save" /\ p.records = page[s].records
    BY <1>3 DEF Save, At
  <2> HIDE DEF p
  <2> QED
    BY <2>1, <2>2, KeptByOne
<1>4. CASE SaveFails(s) \/ StoreCommand(s) \/ Leave(s)
  <2>1. Ends(s)
    BY <1>4 DEF SaveFails, StoreCommand, Leave
  <2> QED
    BY <2>1, EndsDoes, KeptByAll DEF PageBecomes
<1>5. ASSUME NEW q \in Reports,
             SendToReview(s, q) \/ ApproveReport(s, q) \/ PublishReport(s, q) \/ RevokeReport(s, q)
      PROVE  \A t \in Sessions : KeepsSnapshot(t, r)
  BY <1>5, CommandKeepsSnapshot
<1> QED
  BY <1>1, <1>2, <1>3, <1>4, <1>5 DEF PageStep

\* What every step does to the snapshots.
SnapshotsKept ==
    backend = "cloud" =>
        \A r \in Reports :
           /\ \A s \in Sessions : KeepsSnapshot(s, r)
           /\ HasSnapshot(Stored[r]) /\ ~HasSnapshot(Stored'[r]) =>
                 \E s \in Sessions : LacksSnapshot(s, r)

LEMMA SnapshotsStep == TypeInv /\ [Next]_vars => SnapshotsKept
<1> SUFFICES ASSUME TypeInv, [Next]_vars, backend = "cloud", NEW r \in Reports
             PROVE  /\ \A s \in Sessions : KeepsSnapshot(s, r)
                    /\ HasSnapshot(Stored[r]) /\ ~HasSnapshot(Stored'[r]) =>
                          \E s \in Sessions : LacksSnapshot(s, r)
  BY DEF SnapshotsKept
<1>1. ASSUME NEW s \in Sessions, PageStep(s)
      PROVE  Stored'[r] = Stored[r] \/ (Stored'[r] = page[s].records[r]
                                         /\ page[s].pc \in {"save", "store"})
  <2>1. CASE Save(s) \/ SaveFails(s) \/ StoreCommand(s)
    <3>1. page[s].pc \in {"save", "store"} /\ (file' = file \/ Write(s))
      BY <2>1 DEF Save, SaveFails, StoreCommand, At
    <3>2. Write(s) => Stored' = page[s].records
      BY WriteOK, NoneAssumption DEF Write, Stored
    <3> QED
      BY <3>1, <3>2 DEF Stored
  <2>2. CASE OpenPage(s) \/ LoadLocal(s) \/ LoadCloud(s) \/ Leave(s)
    BY <2>2 DEF OpenPage, LoadLocal, LoadCloud, Leave, Stored
  <2>3. ASSUME NEW q \in Reports,
               SendToReview(s, q) \/ ApproveReport(s, q) \/ PublishReport(s, q) \/ RevokeReport(s, q)
        PROVE  file' = file
    BY <2>3 DEF SendToReview, ApproveReport, PublishReport, RevokeReport, Command
  <2> QED
    BY <1>1, <2>1, <2>2, <2>3 DEF PageStep, Stored
<1>2. CASE \E s \in Sessions : PageStep(s)
  <2>1. PICK s \in Sessions : PageStep(s)
    BY <1>2
  <2>2. \A t \in Sessions : KeepsSnapshot(t, r)
    BY <2>1, PageKeepsSnapshot
  <2>3. HasSnapshot(Stored[r]) /\ ~HasSnapshot(Stored'[r]) => LacksSnapshot(s, r)
    BY <1>1, <2>1 DEF LacksSnapshot
  <2> QED
    BY <2>2, <2>3
<1>3. CASE \/ \E s \in Sessions : EmptyState(s) /\ current' \in [Reports -> Texts]
           \/ \E s \in Sessions : NewSession(s)
           \/ KeyReplaced
           \/ CaseChanges
           \/ UNCHANGED vars
  <2>1. file' = file
    BY <1>3 DEF EmptyState, NewSession, KeyReplaced, CaseChanges, vars
  <2>2. \A t \in Sessions : page'[t] = page[t] \/ page'[t] = NoPage
    BY <1>3 DEF EmptyState, NewSession, KeyReplaced, CaseChanges, vars
  <2> QED
    BY <2>1, <2>2, KeptByAll DEF Stored
<1> QED
  BY <1>2, <1>3 DEF Next

\* However many pages run at once: no run of a page of production drops a snapshot
\* that was in the store when it loaded, through no failed write, lost key, change
\* of draft or command; what the store loses is lost to a page that works without it.
THEOREM SnapshotsStay == Spec => NothingForgotten
<1>1. TypeInv /\ [Next]_vars => TypeInv' /\ [SnapshotsKept]_vars
  BY TypeStep, SnapshotsStep
<1>2. Spec => [][SnapshotsKept]_vars
  BY <1>1, TypeInit, PTL DEF Spec
<1> QED
  BY <1>2 DEF NothingForgotten, SnapshotsKept

-----------------------------------------------------------------------------
(* One page at a time again: withdrawal, and the promise of publication.   *)

\* As long as page runs do not overlap, a withdrawn report becomes visible
\* again only when an approval that stands in the store is published: it takes
\* a second page to bring it back otherwise.
THEOREM WithdrawnHidden == ASSUME Overlap = FALSE PROVE Spec => WithdrawnStaysHidden
<1> DEFINE Hidden == \A r \in Reports :
              (backend = "cloud" /\ Stored[r] # None /\ Stored[r].revoked /\ Visible'[r] # None) =>
                  Visible'[r] = Standing(Stored[r])
<1>1. ASSUME SoloInv, [Next]_vars, NEW r \in Reports, Stored[r].revoked, Visible'[r] # None
      PROVE  Visible'[r] = Standing(Stored[r])
  <2>1. Moves(Stored[r], Stored'[r])
    BY <1>1, SoloStep DEF StoreMoves
  <2>2. Shown(Stored[r]) = None /\ Visible'[r] = Shown(Stored'[r])
    BY <1>1 DEF Shown, Visible
  <2> QED
    BY <1>1, <2>1, <2>2 DEF Moves
<1>2. SoloInv /\ [Next]_vars => SoloInv' /\ Hidden
  BY <1>1, SoloStep
<1> HIDE DEF Hidden
<1>3. SoloInv /\ [Next]_vars => SoloInv' /\ [Hidden]_vars
  BY <1>2
<1>4. Spec => [][Hidden]_vars
  BY <1>3, SoloInit, PTL DEF Spec
<1> QED
  BY <1>4 DEF WithdrawnStaysHidden, Hidden

\* As long as page runs do not overlap, publication keeps its promise: a text
\* is shown only by publishing the approval that stands for it.
THEOREM PromiseKept == ASSUME Overlap = FALSE PROVE Spec => KeepsPromise
<1>1. ASSUME NEW rec \in Record \cup {None}
      PROVE  Standing(rec) \in Texts \cup {None} /\ Shown(rec) \in Texts \cup {None}
  BY RecordHas DEF Standing, Shown
<1>2. Init => Promise!Init
  <2> SUFFICES ASSUME Init PROVE Promise!Init
    OBVIOUS
  <2>1. \A r \in Reports : Stored[r] = None
    BY DEF Init, Stored, NoRecords
  <2> QED
    BY <2>1 DEF Promise!Init, Visible, Standing, Shown
<1>3. SoloInv /\ [Next]_vars => Promise!Next
  <2> SUFFICES ASSUME SoloInv, [Next]_vars PROVE Promise!Next
    OBVIOUS
  <2>1. SoloInv' /\ StoreMoves
    BY SoloStep
  <2>2. \A r \in Reports : Stored'[r] \in Record \cup {None}
    BY <2>1 DEF SoloInv, TypeInv, TypeOK, Stored, File, NoRecords, Records
  <2>3. Promise!TypeOK'
    BY <1>1, <2>2 DEF Promise!TypeOK, Visible
  <2>4. ASSUME NEW r \in Reports
        PROVE  \/ Promise!Keep(r) \/ Promise!Approve(r) \/ Promise!Lapse(r)
               \/ Promise!Publish(r) \/ Promise!Withdraw(r)
    BY <2>1, <2>4 DEF StoreMoves, Moves, Visible,
                      Promise!Keep, Promise!Approve, Promise!Lapse, Promise!Publish, Promise!Withdraw
  <2> QED
    BY <2>3, <2>4 DEF Promise!Next
<1>4. SoloInv /\ [Next]_vars => SoloInv'
  BY SoloStep
<1> QED
  BY <1>2, <1>3, <1>4, SoloInit, PTL DEF Spec, KeepsPromise, Promise!Spec
=============================================================================
