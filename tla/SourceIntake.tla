---------------------------- MODULE SourceIntake ----------------------------
(***************************************************************************)
(* The evidence path of the Python application: a page session sends a     *)
(* file, a ZIP package, a shared link or an e-mail with attachments; every *)
(* part becomes an encrypted object and then a source of the core, one     *)
(* remote call after the other with no transaction around them; the text   *)
(* of each part is queued in the session, and an analyst promotes what was *)
(* extracted to propositions of the core.                                  *)
(*                                                                         *)
(* Any call may fail, with or without effect, and the process may end      *)
(* between two calls.  A demo deployment has a core and a storage key of   *)
(* its own per session, so one session of it is followed; its core begins  *)
(* with two synthetic sources and their propositions, which no submission  *)
(* brought and behind which there is no object.                            *)
(***************************************************************************)
EXTENDS Naturals, Sequences, FiniteSets, FiniteSetsExt

CONSTANTS
    Sessions,       \* page sessions
    Cases,          \* engagements
    Submissions,    \* what can be sent, see Kind and Units
    Kind,           \* which form a submission comes through
    Units,          \* its files: one, or an e-mail and its attachments
    Docs,           \* contents
    Lines,          \* the statements of a content, in order
    Readable,       \* contents of a type with an extractor that reads them
    MaxMembers, MaxBytes, MaxDepth,   \* limits of inspect_zip
    Blank,          \* a line too short to be a statement
    MaxCandidates,  \* most statements extracted from one file
    MaxSources,     \* bound: identifiers ever allocated
    MaxStatements,  \* bound: propositions
    MaxFaults,      \* bound: failures and restarts
    None

(***************************************************************************)
(* A file is the sequence of its parts in the order they are registered:   *)
(* the file itself, then, if it is an archive, its members, each followed  *)
(* by its own.  within is the index of the archive a part lies in, 0 for   *)
(* the file itself; bytes is the size of a member; flawed stands for what  *)
(* _check_member and the ZIP reader reject.                                *)
(***************************************************************************)
Part == [doc : Docs, within : Nat, zip : BOOLEAN, bytes : Nat, flawed : BOOLEAN]

ASSUME SourceAssumption ==
    /\ MaxSources \in Nat /\ MaxFaults \in Nat /\ MaxStatements \in Nat
    /\ Kind \in [Submissions -> {"device", "link", "email", "mobile"}]
    /\ \A b \in Submissions :
        /\ Units[b] \in Seq(Seq(Part))
        /\ Len(Units[b]) >= 1
        /\ \A k \in 1 .. Len(Units[b]) :
            /\ Len(Units[b][k]) >= 1
            /\ \A j \in 1 .. Len(Units[b][k]) : Units[b][k][j].within < j
            /\ \A j \in 2 .. Len(Units[b][k]) :
                LET a == Units[b][k][j].within IN a # 0 /\ Units[b][k][a].zip
    /\ Lines \in [Docs -> Seq(STRING)] /\ Blank \in STRING
    /\ Readable \subseteq Docs
    /\ None \notin Sessions \cup Submissions \cup Cases /\ "production" \notin Sessions

VARIABLES
    deployment,   \* "production", or the session a demo deployment follows
    allocated,    \* identifiers handed out so far
    object,       \* storage: what the object of an identifier holds
    source,       \* the core's sources that a submission brought
    propositions, \* the core's propositions about them, in order
    synthetic,    \* the core holds the synthetic sources and propositions
    session,      \* the page sessions
    faults
vars == <<deployment, allocated, object, source, propositions, synthetic, session, faults>>

Ids == 1 .. MaxSources
Statements == (UNION {{Lines[d][i] : i \in 1 .. Len(Lines[d])} : d \in Docs}) \ {Blank}

\* Where a part lies: submission, file, part.
Places == UNION {UNION {{<<b, k, j>> : j \in 1 .. Len(Units[b][k])}
                          : k \in 1 .. Len(Units[b])} : b \in Submissions}
PartAt(p) == Units[p[1]][p[2]][p[3]]
Slots == {<<p[2], p[3]>> : p \in Places}

Object == [place : Places, case : Cases]
Source == [place : Places, case : Cases, parent : Ids \cup {0}]
Proposition == [source : Ids, statement : Statements, case : Cases]

\* None stands for what is not there.
ASSUME NoneAssumption == None \notin Object /\ None \notin Source

(***************************************************************************)
(* A session: pc is the call its script is about to make; sub, unit, part  *)
(* and id say for what; made, the identifiers of the parts registered so   *)
(* far; missed, the attachments it warns about; told, what the page said   *)
(* last.  listed and waiting are the extraction queue; target, chosen and  *)
(* todo a promotion; staged remembers what was ever queued.                *)
(***************************************************************************)
Session == [pc : {"idle", "allocate", "put", "register", "promote"},
            case : Cases, sub : Submissions \cup {None}, unit : Nat, part : Nat,
            id : Ids \cup {0}, made : [Slots -> Ids \cup {0}], missed : SUBSET Nat,
            told : {"nothing", "completed", "rejected", "failed"},
            listed : SUBSET Ids, waiting : [Ids -> SUBSET Statements],
            staged : SUBSET Ids, target : Ids \cup {0},
            chosen : SUBSET Statements, todo : SUBSET Statements]

Fresh(c) == [pc |-> "idle", case |-> c, sub |-> None, unit |-> 0, part |-> 0,
             id |-> 0, made |-> [s \in Slots |-> 0], missed |-> {}, told |-> "nothing",
             listed |-> {}, waiting |-> [i \in Ids |-> {}], staged |-> {},
             target |-> 0, chosen |-> {}, todo |-> {}]

TypeOK ==
    /\ deployment \in {"production"} \cup Sessions
    /\ allocated \in 0 .. MaxSources
    /\ object \in [Ids -> Object \cup {None}]
    /\ source \in [Ids -> Source \cup {None}]
    /\ propositions \in Seq(Proposition)
    /\ synthetic \in BOOLEAN
    /\ session \in [Sessions -> Session]
    /\ faults \in 0 .. MaxFaults

Init ==
    /\ deployment \in {"production"} \cup Sessions
    /\ allocated = 0
    /\ object = [i \in Ids |-> None]
    /\ source = [i \in Ids |-> None]
    /\ propositions = <<>>
    /\ synthetic = (deployment # "production")
    /\ session \in [Sessions -> {Fresh(c) : c \in Cases}]
    /\ faults = 0

-----------------------------------------------------------------------------
(* Inspection and extraction: no remote call. *)

Members(u, a) == {j \in 1 .. Len(u) : u[j].within = a}

\* How many archives a part lies in.
Depth(u) ==
    LET d[j \in 1 .. Len(u)] ==
            IF u[j].within = 0 THEN 0 ELSE 1 + d[u[j].within]
    IN  d

\* What inspect_zip asks of one archive; nested ones are counted afresh.
ArchiveAccepted(u, a) ==
    /\ ~u[a].flawed
    /\ Depth(u)[a] <= MaxDepth
    /\ Cardinality(Members(u, a)) <= MaxMembers
    /\ MapThenSumSet(LAMBDA j : u[j].bytes, Members(u, a)) <= MaxBytes
    /\ \A j \in Members(u, a) : ~u[j].flawed

\* Mutant: only the archive that was sent is inspected.
AcceptedOutermost(u) == u[1].zip => ArchiveAccepted(u, 1)

\* Every archive of the package, the nested ones included.
Accepted(u) == \A a \in 1 .. Len(u) : u[a].zip => ArchiveAccepted(u, a)

\* A mobile upload is registered as it is, archive or not.
Inspected(b, k) == Kind[b] = "mobile" \/ Accepted(Units[b][k])
LastPart(b, k) == IF Kind[b] = "mobile" THEN 1 ELSE Len(Units[b][k])

\* Mutant: lines without text are kept.
SegmentsBlank(d) == IF d \in Readable THEN 1 .. Len(Lines[d]) ELSE {}

\* The lines, rows, values or page segments of a file that hold text; a type
\* without an extractor, or a file that cannot be read, has none.
Segments(d) ==
    IF d \in Readable THEN {n \in 1 .. Len(Lines[d]) : Lines[d][n] # Blank} ELSE {}

\* The first of equal statements stands for all of them.
Distinct(d) ==
    {n \in Segments(d) : \A m \in Segments(d) : m < n => Lines[d][m] # Lines[d][n]}

\* extract_candidate_statements
Extract ==
    [d \in Docs |->
        {Lines[d][n] : n \in {m \in Distinct(d) :
            Cardinality({k \in Distinct(d) : k <= m}) <= MaxCandidates}}]

-----------------------------------------------------------------------------
(* Sending a submission. *)

Uses(s) == deployment \in {"production", s}
Fault == faults < MaxFaults /\ faults' = faults + 1

\* The attachments after k that are registered, and those inspection refuses.
Remaining(b, k) == {n \in k + 1 .. Len(Units[b]) : Inspected(b, n)}
NextUnit(b, k) == IF Remaining(b, k) = {} THEN Len(Units[b]) + 1 ELSE Min(Remaining(b, k))
Refused(b, k) == k + 1 .. NextUnit(b, k) - 1

\* The script goes on with the next attachment, or is done.
AfterUnit(w, missed) ==
    LET done == Remaining(w.sub, w.unit) = {} IN
    [w EXCEPT !.missed = missed \cup Refused(w.sub, w.unit),
              !.unit = NextUnit(w.sub, w.unit), !.part = 1, !.id = 0,
              !.pc = IF done THEN "idle" ELSE "allocate",
              !.told = IF done THEN "completed" ELSE "nothing"]

\* Mutant: an attachment that fails is passed over.
AbandonedQuietly(w) ==
    IF w.unit = 1
      THEN [w EXCEPT !.pc = "idle", !.told = "failed", !.id = 0]
      ELSE AfterUnit(w, w.missed)

\* An exception: the first file ends the script, an attachment is warned about.
Abandoned(w) ==
    IF w.unit = 1
      THEN [w EXCEPT !.pc = "idle", !.told = "failed", !.id = 0]
      ELSE AfterUnit(w, w.missed \cup {w.unit})

\* The button: the first file is inspected before anything of it is registered.
Submit(s, b) ==
    /\ Uses(s)
    /\ session[s].pc = "idle"
    /\ session' = [session EXCEPT
          ![s] = [@ EXCEPT !.sub = b, !.unit = 1, !.part = 1, !.id = 0,
                           !.made = [p \in Slots |-> 0], !.missed = {},
                           !.pc = IF Inspected(b, 1) THEN "allocate" ELSE "idle",
                           !.told = IF Inspected(b, 1) THEN "nothing" ELSE "rejected"]]
    /\ UNCHANGED <<deployment, synthetic, allocated, object, source, propositions, faults>>

\* A shared link that cannot be downloaded.
DownloadFails(s, b) ==
    /\ Uses(s) /\ Fault
    /\ Kind[b] = "link"
    /\ session[s].pc = "idle"
    /\ session' = [session EXCEPT
          ![s] = [@ EXCEPT !.sub = b, !.unit = 1, !.part = 1, !.told = "rejected",
                           !.made = [p \in Slots |-> 0], !.missed = {}]]
    /\ UNCHANGED <<deployment, synthetic, allocated, object, source, propositions>>

\* Mutant: the source is registered before its payload is stored.
AllocateRegisters(s) ==
    /\ session[s].pc = "allocate"
    /\ allocated < MaxSources
    /\ allocated' = allocated + 1
    /\ session' = [session EXCEPT ![s].id = allocated + 1, ![s].pc = "register"]
    /\ UNCHANGED <<deployment, synthetic, object, source, propositions, faults>>

\* allocate_source_id, or a random identifier: never one seen before.
Allocate(s) ==
    /\ session[s].pc = "allocate"
    /\ allocated < MaxSources
    /\ allocated' = allocated + 1
    /\ session' = [session EXCEPT ![s] = [@ EXCEPT !.id = allocated + 1, !.pc = "put"]]
    /\ UNCHANGED <<deployment, synthetic, object, source, propositions, faults>>

Place(w) == <<w.sub, w.unit, w.part>>

\* The payload is encrypted under a key derived for its case and identifier, and
\* authenticated together with its digest.
Sealed(w) == [place |-> Place(w), case |-> w.case]
Stored(w) == [object EXCEPT ![w.id] = Sealed(w)]

\* EncryptedLocalDemoStorage.put writes over what is there.
PutLocally(s) ==
    /\ deployment = s
    /\ session[s].pc = "put"
    /\ object' = Stored(session[s])
    /\ session' = [session EXCEPT ![s].pc = "register"]
    /\ UNCHANGED <<deployment, synthetic, allocated, source, propositions, faults>>

\* SupabaseEncryptedStorage.put refuses to.
PutInCloud(s) ==
    /\ deployment = "production"
    /\ session[s].pc = "put"
    /\ object[session[s].id] = None
    /\ object' = Stored(session[s])
    /\ session' = [session EXCEPT ![s].pc = "register"]
    /\ UNCHANGED <<deployment, synthetic, allocated, source, propositions, faults>>

\* Mutant: every member is registered under the archive that was sent.
ParentOutermost(w) ==
    IF w.part > 1 THEN w.made[<<w.unit, 1>>]
    ELSE IF w.unit > 1 THEN w.made[<<1, 1>>]
    ELSE 0

\* The lineage a part is registered with: its archive, or its e-mail.
Parent(w) ==
    IF w.part > 1 THEN w.made[<<w.unit, PartAt(Place(w)).within>>]
    ELSE IF w.unit > 1 THEN w.made[<<1, 1>>]
    ELSE 0

\* core.register_source
Registered(w) ==
    [source EXCEPT ![w.id] = [place |-> Place(w), case |-> w.case, parent |-> Parent(w)]]

\* _queue_extraction; archives and mobile uploads are not read.
Queued(w) ==
    IF Kind[w.sub] = "mobile" \/ PartAt(Place(w)).zip
      THEN w
      ELSE [w EXCEPT !.listed = @ \cup {w.id},
                     !.waiting = [@ EXCEPT ![w.id] = Extract[PartAt(Place(w)).doc]],
                     !.staged = @ \cup {w.id}]

Advanced(w) ==
    IF w.part < LastPart(w.sub, w.unit)
      THEN [w EXCEPT !.part = @ + 1, !.pc = "allocate", !.id = 0]
      ELSE AfterUnit(w, w.missed)

Register(s) ==
    LET w == session[s]
        kept == [w EXCEPT !.made = [@ EXCEPT ![<<w.unit, w.part>>] = w.id]]
    IN  /\ w.pc = "register"
        /\ source[w.id] = None
        /\ source' = Registered(w)
        /\ session' = [session EXCEPT ![s] = Advanced(Queued(kept))]
        /\ UNCHANGED <<deployment, synthetic, allocated, object, propositions, faults>>

\* A call that fails without effect.
Throws(s) ==
    /\ Fault
    /\ session[s].pc \in {"allocate", "put", "register"}
    /\ session' = [session EXCEPT ![s] = Abandoned(@)]
    /\ UNCHANGED <<deployment, synthetic, allocated, object, source, propositions>>

\* A call that takes effect and is not answered.
Unanswered(s) ==
    LET w == session[s] IN
    /\ Fault
    /\ deployment = "production"
    /\ \/ /\ w.pc = "allocate" /\ allocated < MaxSources
          /\ allocated' = allocated + 1
          /\ UNCHANGED <<object, source>>
       \/ /\ w.pc = "put" /\ object[w.id] = None
          /\ object' = Stored(w)
          /\ UNCHANGED <<allocated, source>>
       \/ /\ w.pc = "register" /\ source[w.id] = None
          /\ source' = Registered(w)
          /\ UNCHANGED <<allocated, object>>
    /\ session' = [session EXCEPT ![s] = Abandoned(w)]
    /\ UNCHANGED <<deployment, synthetic, propositions>>

-----------------------------------------------------------------------------
(* Review of what was extracted. *)

Dismiss(s, i) ==
    /\ session[s].pc = "idle"
    /\ i \in session[s].listed
    /\ session[s].waiting[i] = {}
    /\ session' = [session EXCEPT ![s].listed = @ \ {i}]
    /\ UNCHANGED <<deployment, synthetic, allocated, object, source, propositions, faults>>

Promote(s, i, chosen) ==
    /\ session[s].pc = "idle"
    /\ i \in session[s].listed
    /\ chosen # {} /\ chosen \subseteq session[s].waiting[i]
    /\ session' = [session EXCEPT
          ![s] = [@ EXCEPT !.pc = "promote", !.target = i,
                           !.chosen = chosen, !.todo = chosen]]
    /\ UNCHANGED <<deployment, synthetic, allocated, object, source, propositions, faults>>

\* Mutant: the entry is taken off the queue with what was not selected.
PromotedPops(w, c) ==
    IF w.todo # {c}
      THEN [w EXCEPT !.todo = @ \ {c}]
      ELSE [w EXCEPT !.todo = {}, !.chosen = {}, !.target = 0, !.pc = "idle",
                     !.waiting = [@ EXCEPT ![w.target] = {}],
                     !.listed = @ \ {w.target}]

\* The queue is rewritten once all the selected statements are in the core.
Promoted(w, c) ==
    IF w.todo # {c}
      THEN [w EXCEPT !.todo = @ \ {c}]
      ELSE LET left == w.waiting[w.target] \ w.chosen IN
           [w EXCEPT !.todo = {}, !.chosen = {}, !.target = 0, !.pc = "idle",
                     !.waiting = [@ EXCEPT ![w.target] = left],
                     !.listed = IF left = {} THEN @ \ {w.target} ELSE @]

\* core.add_proposition, which wants the source to be registered.
Recorded(w, c) ==
    Append(propositions, [source |-> w.target, statement |-> c, case |-> w.case])

AddProposition(s, c) ==
    /\ session[s].pc = "promote"
    /\ c \in session[s].todo
    /\ source[session[s].target] # None
    /\ Len(propositions) < MaxStatements
    /\ propositions' = Recorded(session[s], c)
    /\ session' = [session EXCEPT ![s] = Promoted(@, c)]
    /\ UNCHANGED <<deployment, synthetic, allocated, object, source, faults>>

\* The exception leaves the queue as it was; the core may have the statement.
PromotionFails(s, c) ==
    /\ Fault
    /\ session[s].pc = "promote"
    /\ c \in session[s].todo
    /\ \/ UNCHANGED propositions
       \/ /\ deployment = "production"
          /\ source[session[s].target] # None
          /\ Len(propositions) < MaxStatements
          /\ propositions' = Recorded(session[s], c)
    /\ session' = [session EXCEPT
          ![s] = [@ EXCEPT !.pc = "idle", !.target = 0, !.chosen = {}, !.todo = {}]]
    /\ UNCHANGED <<deployment, synthetic, allocated, object, source>>

-----------------------------------------------------------------------------
(* The session itself. *)

\* The queue belongs to the session and not to the case.  A demo has one case.
SwitchCase(s, c) ==
    /\ deployment = "production"
    /\ session[s].pc = "idle"
    /\ c # session[s].case
    /\ session' = [session EXCEPT ![s].case = c]
    /\ UNCHANGED <<deployment, synthetic, allocated, object, source, propositions, faults>>

\* Load and clear: the demo's core holds the synthetic case again, or nothing,
\* and the queue is emptied.
ReplaceDemoData(s) ==
    /\ deployment = s
    /\ session[s].pc = "idle"
    /\ source' = [i \in Ids |-> None]
    /\ propositions' = <<>>
    /\ synthetic' \in BOOLEAN
    /\ session' = [session EXCEPT
          ![s] = [@ EXCEPT !.listed = {}, !.waiting = [i \in Ids |-> {}],
                           !.staged = {}, !.told = "nothing"]]
    /\ UNCHANGED <<deployment, allocated, object, faults>>

\* The process ends, at any point; a demo begins again with a core of its own.
SessionEnds(s) ==
    /\ Fault
    /\ Uses(s)
    /\ session' = [session EXCEPT ![s] = Fresh(@.case)]
    /\ IF deployment = s
         THEN source' = [i \in Ids |-> None] /\ propositions' = <<>> /\ synthetic' = TRUE
         ELSE UNCHANGED <<source, propositions, synthetic>>
    /\ UNCHANGED <<deployment, allocated, object>>

Next ==
    \E s \in Sessions :
        \/ \E b \in Submissions : Submit(s, b) \/ DownloadFails(s, b)
        \/ Allocate(s) \/ PutLocally(s) \/ PutInCloud(s) \/ Register(s) \/ Throws(s) \/ Unanswered(s)
        \/ \E i \in Ids : Dismiss(s, i)
        \/ \E i \in Ids : \E chosen \in SUBSET session[s].waiting[i] : Promote(s, i, chosen)
        \/ \E c \in Statements : AddProposition(s, c) \/ PromotionFails(s, c)
        \/ \E c \in Cases : SwitchCase(s, c)
        \/ ReplaceDemoData(s) \/ SessionEnds(s)

Spec == Init /\ [][Next]_vars

-----------------------------------------------------------------------------
(* Properties. *)

\* There is an object at the address of the source, it was sealed for the source's
\* case, and it holds what was registered: what read_source_for_working_copy needs
\* to hand a copy out, where the store has a reader at all.
Intact(i) ==
    /\ object[i] # None
    /\ object[i].case = source[i].case
    /\ object[i].place = source[i].place

\* Every source that a submission brought has an object from which its own content
\* can be recovered: ingest_file writes the payload first, and whatever fails in
\* between leaves an object without a source, never a source without its object.
SourcesAreStored == \A i \in Ids : source[i] # None => Intact(i)

\* A part that lies in an archive is registered under the source of that very
\* archive, an attachment under its e-mail, in the same case, however far the
\* package got before it failed.
LineageIsWhole ==
    \A i \in Ids : source[i] # None =>
        LET p == source[i].place
            above == IF p[3] > 1 THEN <<p[1], p[2], PartAt(p).within>>
                     ELSE <<p[1], 1, 1>>
        IN  IF p[2] = 1 /\ p[3] = 1
              THEN source[i].parent = 0
              ELSE /\ source[i].parent # 0
                   /\ source[source[i].parent] # None
                   /\ source[source[i].parent].place = above
                   /\ source[source[i].parent].case = source[i].case

\* When the page says that the intake is completed, every part of every file
\* it does not warn about is a source.
CompletedMeansAll ==
    \A s \in Sessions : session[s].told = "completed" =>
        \A k \in 1 .. Len(Units[session[s].sub]) :
            \/ k \in session[s].missed
            \/ \A j \in 1 .. LastPart(session[s].sub, k) :
                LET i == session[s].made[<<k, j>>] IN
                i # 0 /\ source[i] # None
                      /\ source[i].place = <<session[s].sub, k, j>>

\* Nothing of a package with a member that inspect_zip must refuse, at any
\* depth, becomes a source, except through the mobile page.
PackagesAreInspected ==
    \A i \in Ids : source[i] # None =>
        LET p == source[i].place
            u == Units[p[1]][p[2]]
        IN  Kind[p[1]] = "mobile" \/ ~u[1].zip
              \/ \A j \in 1 .. Len(u) : ~u[j].flawed

\* No extracted statement slips away between the queue and the core, and none is
\* recorded twice: as long as the session lives, each is still waiting or is a
\* proposition, and unless a promotion failed half-way it is one only once.
Recordings(i, c) ==
    {n \in 1 .. Len(propositions) :
        propositions[n].source = i /\ propositions[n].statement = c}
StatementsAccounted ==
    \A s \in Sessions : \A i \in session[s].staged :
        /\ source[i] # None
        /\ \A c \in Extract[PartAt(source[i].place).doc] :
            /\ Recordings(i, c) = {} =>
                i \in session[s].listed /\ c \in session[s].waiting[i]
            /\ faults = 0 => Cardinality(Recordings(i, c)) <= 1
=============================================================================
