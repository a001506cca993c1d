------------------------------- MODULE CaseDesk --------------------------------
(***************************************************************************)
(* What staff decide from a portal session: the checkpoints of a case, the *)
(* requests to its client, and the owner's queue of approvals.  A click is *)
(* remembered, the script runs again and reads everything anew, and only   *)
(* if the same button is rendered again is the call made; meanwhile other  *)
(* staff work on the same cases and the same queue.                        *)
(***************************************************************************)
EXTENDS PortalSession, Sequences, SequencesExt

CONSTANTS
    Approvals,
    Protected,   \* approvals behind a protected gate
    Synthetic,   \* the cases of a demonstration
    Waiting,     \* bound: the approvals that are pending at first
    Delivered,   \* bound: the cases that are reviewed and delivered at first
    Moments      \* bound: what of the desk is under way when other staff act

ASSUME DeskAssumption ==
    /\ Protected \subseteq Approvals /\ Waiting \subseteq Approvals /\ None \notin Approvals
    /\ Synthetic \cup Delivered \subseteq Cases /\ IsFiniteSet(Approvals)

VARIABLES
    status,      \* each case's checkpoints
    caseStatus,  \* the case itself
    requested,   \* cases with an open request to the client
    published,   \* cases with a report that is published, its handoff approved
    queue,       \* the pending approvals, in the order the service lists them
    decided,     \* what was decided
    rows, list,  \* the checkpoints and the approvals the last run rendered
    pending,     \* the click that started the run
    call,        \* the calls in progress, of this session and of another one
    meant,       \* ghost: the decisions clicked in this session
    ready        \* ghost: checkpoints that were found ready to be completed
recordVars == <<requested, published>>
deskVars == <<status, caseStatus, recordVars, queue, decided, rows, list, pending, call, meant, ready>>
vars == <<portalVars, deskVars>>

\* Four of the thirteen, in their order: the review stands for those before it
\* and the report after it.  All are required.
Checkpoints == {"HUMAN_REVIEW", "PUBLICATION_HANDOFF", "CLOSEOUT", "ARCHIVE"}
First == "HUMAN_REVIEW"
Prior(key) == CASE key = "HUMAN_REVIEW"        -> {}
                [] key = "PUBLICATION_HANDOFF" -> {"HUMAN_REVIEW"}
                [] key = "CLOSEOUT"            -> {"HUMAN_REVIEW", "PUBLICATION_HANDOFF"}
                [] key = "ARCHIVE"             -> Checkpoints \ {"ARCHIVE"}
\* IN_PROGRESS stands for every status of a checkpoint that is not settled.
Statuses == {"IN_PROGRESS", "COMPLETE", "NOT_APPLICABLE"}
Rows == [Checkpoints -> Statuses]
\* refresh_case_lifecycle_v1, which every snapshot starts with: checkpoints that
\* are not settled follow the report that is published and a case that is closed.
Refreshed(row, case, delivered) ==
    [k \in Checkpoints |->
        IF \/ k = "PUBLICATION_HANDOFF" /\ delivered /\ row[k] = "IN_PROGRESS"
           \/ k = "CLOSEOUT" /\ case \in {"CLOSED", "ARCHIVED"} /\ row[k] = "IN_PROGRESS"
           \/ k = "ARCHIVE" /\ case = "ARCHIVED" /\ row[k] = "IN_PROGRESS"
          THEN "COMPLETE" ELSE row[k]]
Options(role) == IF role \in {"analyst", "reviewer"} THEN {"HUMAN_REVIEW"} ELSE Checkpoints

\* A deferral stands with the rejections: it is sent as one of its own, and takes
\* the approval off the queue as they do.
Decisions == {"APPROVE", "REJECT"}
Workers == {"self", "other"}
NoCall == [step |-> "none"]
\* Of a transition, "settled" is a ghost: whether what comes before was settled
\* when the call looked.
Transition == [step : {"authority", "prior", "evidence", "write"}, user : Users, case : Cases,
               key : Checkpoints, to : Statuses, settled : BOOLEAN]
Request == [step : {"request"}, case : Cases]
Decision == [step : {"decide"}, key : Approvals, decision : Decisions, confirmed : BOOLEAN]
TransitionClick == [kind : {"transition"}, case : Cases, key : Checkpoints, to : Statuses, rows : Rows]
RequestClick == [kind : {"request"}, case : Cases]
DecisionClick == [kind : {"decision"}, index : 1 .. Cardinality(Approvals), key : Approvals,
                  decision : Decisions, confirmed : BOOLEAN]
\* The user is the one of this session, or None for a decision made elsewhere.
Taken == [user : Users \cup {None}, decision : Decisions, confirmed : BOOLEAN]
NoClick == [kind |-> "none"]

\* The state is one the program can be in, of the session and of the desk; an
\* approval is pending or decided, never both, and a decision taken stays in
\* the owners' hands.
DeskTypeOK ==
    /\ PortalTypeOK
    /\ status \in [Cases -> Rows]
    /\ caseStatus \in [Cases -> {"OPEN", "CLOSED", "ARCHIVED"}]
    /\ requested \subseteq Cases /\ published \subseteq Cases
    /\ IsInjective(queue) /\ ToSet(queue) \subseteq Approvals
    /\ decided \in [Approvals -> Taken \cup {None}]
    /\ \A a \in ToSet(queue) : decided[a] = None
    /\ rows \in Rows \cup {None} /\ ToSet(list) \subseteq Approvals
    /\ pending \in TransitionClick \cup RequestClick \cup DecisionClick \cup {NoClick}
    /\ call \in [Workers -> Transition \cup Request \cup Decision \cup {NoCall}]
    /\ ready \in [Cases -> SUBSET Checkpoints]

DeskInit ==
    /\ status = [c \in Cases |-> [k \in Checkpoints |->
          IF c \in Delivered /\ k \in {"HUMAN_REVIEW", "PUBLICATION_HANDOFF"} THEN "COMPLETE" ELSE "IN_PROGRESS"]]
    /\ caseStatus = [c \in Cases |-> "OPEN"] /\ requested = {} /\ published = Delivered
    /\ queue = SetToSeq(Waiting)
    /\ decided = [a \in Approvals |-> None]
    /\ rows = None /\ list = <<>> /\ pending = NoClick
    /\ call = [w \in Workers |-> NoCall]
    /\ meant = {} /\ ready = [c \in Cases |-> {}]
Init == PortalInit /\ DeskInit

-----------------------------------------------------------------------------
(* What a run renders, and the call it makes for the click that started it. *)

\* private.can_access_case: administrators, and who is granted the case, by an
\* assignment only as staff.
MayAccess(user, case) ==
    /\ profile[user].active
    /\ \/ profile[user].role \in {"owner", "admin"}
       \/ case \in member[user]
       \/ profile[user].role \in Staff /\ case \in assigned[user]

\* Staff control the checkpoints; the owner's are above the page, whatever is
\* previewed below.
Controls(s) ==
    /\ s.kind = "page" /\ ~anonymous /\ s.role \in Staff /\ s.case \in Cases
    /\ IF s.role = "owner" THEN s.page = "Cases"
       ELSE front = "portal" /\ s.page \in {"Dashboard", "Cases"}
Requests(s) ==
    /\ s.kind = "page" /\ ~anonymous /\ s.role \in Staff \ {"owner"} /\ s.case \in Cases
    /\ front = "portal" /\ s.page \in {"Dashboard", "Requests & To-Do"}
Decides(s) ==
    /\ s.kind = "page" /\ ~anonymous /\ s.role = "owner"
    /\ s.page = "Decisions" /\ s.preview = "Owner"

\* The box keeps the checkpoint chosen unless it is not offered any more or, its
\* label being part of it, some status has changed: then it may be the first.
TransitionCalls(s, now) ==
    IF now = None \/ s.case # pending.case THEN {}
    ELSE {[step |-> "authority", user |-> s.user, case |-> s.case, key |-> k, to |-> pending.to,
           settled |-> FALSE] :
             k \in Options(s.role) \cap ({pending.key} \cup IF now = pending.rows THEN {} ELSE {First})}
RequestCalls(s) ==
    IF Requests(s) /\ s.case = pending.case
      THEN {[step |-> "request", case |-> s.case]} ELSE {}

\* Mutant: every protected gate is sent as confirmed.
DecisionCallsConfirmed(approvals) ==
    IF pending.index \in DOMAIN approvals /\ approvals[pending.index] = pending.key
      THEN {[step |-> "decide", key |-> pending.key, decision |-> pending.decision,
             confirmed |-> pending.key \in Protected]} ELSE {}
\* The widgets of an approval are known by its place and its key.
DecisionCalls(approvals) ==
    IF pending.index \in DOMAIN approvals /\ approvals[pending.index] = pending.key
      THEN {[step |-> "decide", key |-> pending.key, decision |-> pending.decision,
             confirmed |-> pending.confirmed]} ELSE {}

Calls(s, now, approvals) ==
    CASE pending.kind = "transition" -> TransitionCalls(s, now)
      [] pending.kind = "request"    -> RequestCalls(s)
      [] pending.kind = "decision"   -> DecisionCalls(approvals)
      [] pending.kind = "none"       -> {}

\* Either read may fail; the rest of the page is shown without it.
DeskShows ==
    /\ Shows
    /\ \/ rows' = None /\ UNCHANGED status
       \/ /\ Controls(shown') /\ MayAccess(shown'.user, shown'.case)
          /\ status' = [status EXCEPT ![shown'.case] =
                Refreshed(@, caseStatus[shown'.case], shown'.case \in published)]
          /\ rows' = status'[shown'.case]
    /\ list' \in {<<>>} \cup IF Decides(shown') THEN {queue} ELSE {}
    /\ pending' = NoClick
    /\ LET calls == Calls(shown', rows', list')
       IN  call' \in {[call EXCEPT !["self"] = c] : c \in IF calls = {} THEN {NoCall} ELSE calls}
    /\ UNCHANGED <<caseStatus, recordVars, queue, decided, meant, ready>>

\* A run that ends otherwise has forgotten the click.
DeskRuns ==
    /\ RunStep
    /\ pending' = IF run'.pc = "idle" THEN NoClick ELSE pending
    /\ UNCHANGED <<status, caseStatus, recordVars, queue, decided, rows, list, call, meant, ready>>

-----------------------------------------------------------------------------
(* The clicks. *)

Free == call["self"] = NoCall
Cleared == rows' = None /\ list' = <<>> /\ UNCHANGED <<status, caseStatus, recordVars, queue, decided, call, ready>>

ClickElsewhere == Free /\ UserStep /\ Cleared /\ UNCHANGED <<pending, meant>>
DeskClick(p) ==
    /\ Free /\ Click(memory) /\ pending' = p
    /\ Cleared /\ UNCHANGED token

ClickTransition(key, to) ==
    /\ rows # None /\ key \in Options(shown.role)
    /\ DeskClick([kind |-> "transition", case |-> shown.case, key |-> key, to |-> to, rows |-> rows])
    /\ UNCHANGED meant
ClickRequest ==
    /\ Requests(shown)
    /\ DeskClick([kind |-> "request", case |-> shown.case])
    /\ UNCHANGED meant
\* The button is disabled until a protected approval is confirmed.
ClickDecision(index, decision, confirmed) ==
    /\ index \in DOMAIN list
    /\ list[index] \in Protected /\ decision = "APPROVE" => confirmed
    /\ confirmed => list[index] \in Protected /\ decision = "APPROVE"
    /\ DeskClick([kind |-> "decision", index |-> index, key |-> list[index],
                  decision |-> decision, confirmed |-> confirmed])
    /\ meant' = meant \cup {[user |-> shown.user, key |-> list[index],
                             decision |-> decision, confirmed |-> confirmed]}

DeskClicks ==
    \/ \E key \in Checkpoints, to \in Statuses : ClickTransition(key, to)
    \/ ClickRequest
    \/ \E index \in 1 .. Cardinality(Approvals), decision \in Decisions, confirmed \in BOOLEAN :
          ClickDecision(index, decision, confirmed)

-----------------------------------------------------------------------------
(* The calls. *)

\* The script starts again once a call of this session has succeeded, and stays
\* where it is when the answer is an error or lost.
Ends(w) ==
    /\ call' = [call EXCEPT ![w] = NoCall]
    /\ \/ w = "self" /\ Starts /\ rows' = None /\ list' = <<>>
       \/ UNCHANGED <<run, shown, rows, list>>
    /\ UNCHANGED <<front, anonymous, serverVars, token, memory, since, changes, clicks, pending, meant>>
\* An exception in the function undoes all it has done.
Fails(w) ==
    /\ call[w] # NoCall
    /\ call' = [call EXCEPT ![w] = NoCall]
    /\ UNCHANGED <<portalVars, status, caseStatus, recordVars, queue, decided, rows, list, pending,
                   meant, ready>>

\* transition_case_checkpoint_v1: each of its statements reads what others have
\* written when it starts.
Continues(w, c) ==
    /\ call' = [call EXCEPT ![w] = c]
    /\ UNCHANGED <<portalVars, status, caseStatus, recordVars, queue, decided, rows, list, pending, meant>>

\* First it looks at the authority of the caller, ...
MayMove(c) ==
    /\ MayAccess(c.user, c.case)
    /\ \/ profile[c.user].role \in {"owner", "admin"}
       \/ /\ profile[c.user].role \in {"analyst", "reviewer"} /\ c.case \in assigned[c.user]
          /\ c.key = "HUMAN_REVIEW" /\ c.to # "NOT_APPLICABLE"
    /\ c.to = "NOT_APPLICABLE" => c.case \in Synthetic
Authorized(c) == [c EXCEPT !.step = IF c.to = "COMPLETE" THEN "prior" ELSE "write"]
CheckAuthority ==
    LET c == call["self"] IN
    /\ c # NoCall /\ c.step = "authority" /\ MayMove(c)
    /\ Continues("self", Authorized(c)) /\ UNCHANGED ready

\* ... then at the checkpoints before the one to complete, ...
PriorComplete(case, key) == \A k \in Prior(key) : status[case][k] \in {"COMPLETE", "NOT_APPLICABLE"}
CheckPrior(w) ==
    LET c == call[w] IN
    /\ c # NoCall /\ c.step = "prior" /\ PriorComplete(c.case, c.key)
    /\ Continues(w, [c EXCEPT !.step = "evidence",
                              !.settled = \A k \in Prior(c.key) : status[c.case][k] # "IN_PROGRESS"])
    /\ UNCHANGED ready

\* Mutant: only the order of the checkpoints counts.
EvidenceOfOrder(case, key) == TRUE
\* ... then, in one statement, at the records that prove it (that a review is
\* recorded is not looked at here, and that the handoff of a published report was
\* approved goes without saying), ...
Evidence(case, key) ==
    CASE key = "HUMAN_REVIEW"        -> TRUE
      [] key = "PUBLICATION_HANDOFF" -> case \in published
      [] key = "CLOSEOUT" -> case \notin requested /\ status[case]["PUBLICATION_HANDOFF"] = "COMPLETE"
      [] key = "ARCHIVE"  -> caseStatus[case] = "CLOSED" /\ status[case]["CLOSEOUT"] = "COMPLETE"
\* Ghost: what the evidence of the last two checkpoints must be.
Proven(case, key) ==
    /\ key = "CLOSEOUT" => case \notin requested /\ status[case]["PUBLICATION_HANDOFF"] = "COMPLETE"
    /\ key = "ARCHIVE" => caseStatus[case] = "CLOSED" /\ status[case]["CLOSEOUT"] = "COMPLETE"
CheckEvidence(w) ==
    LET c == call[w] IN
    /\ c # NoCall /\ c.step = "evidence" /\ Evidence(c.case, c.key)
    /\ Continues(w, [c EXCEPT !.step = "write"])
    /\ ready' = IF c.settled /\ Proven(c.case, c.key)
                  THEN [ready EXCEPT ![c.case] = @ \cup {c.key}] ELSE ready

\* ... and then it writes, and returns a snapshot, which refreshes and is refused
\* to a caller whose access was taken back meanwhile.  A checkpoint that is
\* opened again does not open its case.
WriteTransition(w) ==
    LET c == call[w] IN
    /\ c # NoCall /\ c.step = "write" /\ MayAccess(c.user, c.case)
    /\ caseStatus' = [caseStatus EXCEPT ![c.case] =
          IF c.to = "COMPLETE" /\ c.key = "CLOSEOUT" THEN "CLOSED"
          ELSE IF c.to = "COMPLETE" /\ c.key = "ARCHIVE" THEN "ARCHIVED" ELSE @]
    /\ status' = [status EXCEPT ![c.case] =
          Refreshed([@ EXCEPT ![c.key] = c.to], caseStatus'[c.case], c.case \in published)]
    /\ Ends(w)
    /\ UNCHANGED <<recordVars, queue, decided, ready>>

MakeRequest ==
    LET c == call["self"] IN
    /\ c # NoCall /\ c.step = "request"
    /\ requested' = requested \cup {c.case}
    /\ Ends("self")
    /\ UNCHANGED <<status, caseStatus, published, queue, decided, ready>>

\* Mutant: what is decided stays in the queue.
DecidedKept(user, key, decision, confirmed) ==
    /\ key \in ToSet(queue)
    /\ queue' = queue
    /\ decided' = [decided EXCEPT ![key] =
          [user |-> user, decision |-> decision, confirmed |-> confirmed]]
\* The service decides what is still pending.
Decided(user, key, decision, confirmed) ==
    /\ \E place \in DOMAIN queue :
          queue[place] = key /\ queue' = RemoveAt(queue, place)
    /\ decided' = [decided EXCEPT ![key] =
          [user |-> user, decision |-> decision, confirmed |-> confirmed]]
Decide ==
    LET c == call["self"] IN
    /\ c # NoCall /\ c.step = "decide"
    /\ Decided(run.user, c.key, c.decision, c.confirmed)
    /\ Ends("self")
    /\ UNCHANGED <<status, caseStatus, recordVars, ready>>

CallSteps ==
    \/ CheckAuthority \/ MakeRequest \/ Decide
    \/ \E w \in Workers : Fails(w) \/ CheckPrior(w) \/ CheckEvidence(w) \/ WriteTransition(w)

-----------------------------------------------------------------------------
(* Other staff, and the programs that list approvals. *)

Moment == IF call["self"] # NoCall THEN "call"
          ELSE IF pending # NoClick THEN "run"
          ELSE IF rows # None \/ list # <<>> THEN "page" ELSE "other"
Elsewhere ==
    /\ changes < MaxChanges /\ clicks + changes < MaxClicks /\ changes' = changes + 1
    /\ ~anonymous /\ Moment \in Moments
    /\ UNCHANGED <<front, anonymous, serverVars, token, memory, run, shown, since, clicks>>
    /\ UNCHANGED <<status, caseStatus, rows, list, pending, meant>>

\* A transition made elsewhere, from the moment its authority is looked at.
OthersMove(user, case, key, to) ==
    LET c == [step |-> "authority", user |-> user, case |-> case, key |-> key, to |-> to,
              settled |-> FALSE] IN
    /\ Elsewhere /\ call["other"] = NoCall /\ MayMove(c)
    /\ call' = [call EXCEPT !["other"] = Authorized(c)]
    /\ UNCHANGED <<recordVars, queue, decided, ready>>
RecordsChange(case) ==
    /\ Elsewhere
    /\ \/ requested' = Toggled(requested, case) /\ UNCHANGED published
       \/ published' = Toggled(published, case) /\ UNCHANGED requested
    /\ UNCHANGED <<queue, decided, call, ready>>
OthersDecide(a, decision) ==
    /\ Elsewhere /\ \E u \in Users : profile[u].role = "owner"
    /\ Decided(None, a, decision, TRUE)
    /\ UNCHANGED <<recordVars, call, ready>>
Listed(a, place) ==
    /\ Elsewhere /\ a \notin ToSet(queue) /\ decided[a] = None
    /\ queue' = InsertAt(queue, place, a)
    /\ UNCHANGED <<recordVars, decided, call, ready>>

Others ==
    \/ \E user \in Users, case \in Cases, key \in Checkpoints, to \in Statuses :
          OthersMove(user, case, key, to)
    \/ \E case \in Cases : RecordsChange(case)
    \/ \E a \in Approvals, decision \in Decisions : OthersDecide(a, decision)
    \/ \E a \in Approvals : \E place \in 1 .. Len(queue) + 1 : Listed(a, place)

Administration == ~anonymous /\ Environment /\ UNCHANGED deskVars

Next == DeskShows \/ DeskRuns \/ ClickElsewhere \/ DeskClicks \/ CallSteps \/ Others \/ Administration

Spec == Init /\ [][Next]_vars

-----------------------------------------------------------------------------
(* Properties. *)

\* A decision recorded from this session is one its user clicked, for the
\* approval he was shown, confirmed when it is protected and approved, however
\* the queue has moved between the click and the run that makes the call.
DecisionIsMeant ==
    \A a \in Approvals : decided[a] # None /\ decided[a].user # None =>
        LET d == decided[a] IN
        /\ [user |-> d.user, key |-> a, decision |-> d.decision, confirmed |-> d.confirmed] \in meant
        /\ a \in Protected /\ d.decision = "APPROVE" => d.confirmed

\* A case is closed only by a transition that found everything before its
\* closing settled at one moment and, at a later one, its delivery complete and
\* no request to the client open; it is archived only by one that found the same
\* before the archive and, later, the case closed and its closing complete: even
\* when two of the staff move its checkpoints at the same time.  Only in a
\* synthetic case does anything count as settled that is not complete.  And a
\* case that has been closed never shows its closing open again, whichever
\* checkpoint is opened, nor does an open case show it complete.
ClosedWasComplete ==
    \A c \in Cases :
        /\ caseStatus[c] \in {"CLOSED", "ARCHIVED"} => "CLOSEOUT" \in ready[c]
        /\ caseStatus[c] = "ARCHIVED" => "ARCHIVE" \in ready[c]
        /\ \A k \in Checkpoints : status[c][k] = "NOT_APPLICABLE" => c \in Synthetic
        /\ status[c]["CLOSEOUT"] = "COMPLETE" => caseStatus[c] # "OPEN"
        /\ status[c]["CLOSEOUT"] = "IN_PROGRESS" => caseStatus[c] = "OPEN"
=============================================================================
