---------------------------- MODULE CaseDeskProofs ----------------------------
(***************************************************************************)
(* Proofs about CaseDesk and the portal session it extends, for any users, *)
(* cases and approvals, any pages that are clicked, and any number of      *)
(* clicks and of changes by others.                                        *)
(*                                                                         *)
(* ShownIsAuthorized, DecisionIsMeant and ClosedWasComplete share one      *)
(* invariant.  The last part types the whole state on top of it: that the  *)
(* queue lists an approval once, and none that was decided, is what makes  *)
(* the removal of a decided one leave a queue.                             *)
(***************************************************************************)
EXTENDS CaseDesk, FiniteSetTheorems, SequenceTheorems, TLAPS

-----------------------------------------------------------------------------
(* The inductive invariant of the session. *)

DataOK ==
    /\ token \in Users \cup {None}
    /\ anonymous => token = None
    /\ member \in [Users -> SUBSET Cases]
    /\ assigned \in [Users -> SUBSET Cases]
    /\ profile \in [Users -> Profile]
    /\ since.cases \subseteq Cases
    /\ shown.kind = "page" /\ ~anonymous => shown.user = token
    /\ shown.kind = "signin" => ~anonymous

\* What a run has read, it has read of its own user, since it began.
Reading == {"profile", "members", "assignments", "page"}
RunOK ==
    /\ run = [pc |-> run.pc, user |-> run.user, role |-> run.role, cases |-> run.cases]
    /\ run.pc \in {"idle", "start"} \cup Reading
    /\ run.pc # "idle" => shown = Blank
    /\ run.pc \in {"profile", "members", "assignments"} => ~anonymous
    /\ run.pc \in Reading /\ ~anonymous => run.user = token /\ token \in Users
    /\ run.pc \in Reading /\ ~anonymous =>
          RolesOf(token) \subseteq since.roles /\ Granted(token) \subseteq since.cases
    /\ run.pc \in {"members", "assignments", "page"} => run.role \in since.roles
    /\ run.pc = "assignments" => run.cases \subseteq since.cases
    /\ run.pc = "page" => run.cases \subseteq since.cases \cup {"owner-private"}
    /\ run.pc = "page" => ("owner-private" \in run.cases => "owner" \in since.roles)

PortalInv == DataOK /\ RunOK /\ ShownIsAuthorized

\* The inductive invariant of the desk: a click is remembered only until the end
\* of the run it starts, and a call is made of it only while the script waits.
MeantBy(user, p, clicked) ==
    /\ [user |-> user, key |-> p.key, decision |-> p.decision, confirmed |-> p.confirmed] \in clicked
    /\ p.key \in Protected /\ p.decision = "APPROVE" => p.confirmed
ClicksOK ==
    /\ run.pc = "idle" => pending = NoClick
    /\ run.pc # "idle" => rows = None /\ list = <<>>
    /\ rows # None => Controls(shown)
    /\ list # <<>> => Decides(shown)
    /\ pending.kind \in {"none", "transition", "request", "decision"}
    /\ pending.kind = "transition" => pending.case \in Cases /\ pending.to \in Statuses
    /\ pending.kind = "decision" => ~anonymous /\ MeantBy(token, pending, meant)
CallOK(c, allowed) ==
    /\ \/ c = NoCall \/ c.step \in {"request", "decide"}
       \/ c \in Transition
    /\ c.step \in {"prior", "evidence"} => c.to = "COMPLETE"
    /\ c.step = "evidence" => c.settled
    /\ c.step = "write" /\ c.to = "NOT_APPLICABLE" => c.case \in Synthetic
    /\ c.step = "write" /\ c.to = "COMPLETE" => c.key \in allowed[c.case]
CallsOK ==
    /\ call = [w \in Workers |-> call[w]]
    /\ run.pc # "idle" => call["self"] = NoCall
    /\ \A w \in Workers : CallOK(call[w], ready)
    /\ call["self"].step = "decide" => MeantBy(run.user, call["self"], meant)
DecidedOK == decided = [a \in Approvals |-> decided[a]] /\ DecisionIsMeant
CasesOK ==
    /\ status \in [Cases -> Rows]
    /\ caseStatus \in [Cases -> {"OPEN", "CLOSED", "ARCHIVED"}]
    /\ ready \in [Cases -> SUBSET Checkpoints]
    /\ \A c \in Cases : "ARCHIVE" \in ready[c] => "CLOSEOUT" \in ready[c]
    /\ ClosedWasComplete

Inv == PortalInv /\ ClicksOK /\ CallsOK /\ DecidedOK /\ CasesOK

-----------------------------------------------------------------------------
(* Runs. *)

LEMMA BlankIs ==
    /\ Blank.kind = "nothing" /\ Blank.user = None /\ Blank.role = None
    /\ Blank.page = None /\ Blank.case = None
BY DEF Blank

\* A run that ends without a page.
LEMMA StopKeeps ==
    ASSUME PortalInv, NEW kind \in {"signin", "denied", "error", "none"}, Stops(kind),
           kind = "signin" => ~anonymous,
           UNCHANGED <<front, anonymous, serverVars, since>>,
           token' = token \/ token' = None
    PROVE  PortalInv' /\ run'.pc = "idle"
<1>1. /\ run'.pc = "idle" /\ run'.user = run.user /\ run'.role = run.role
      /\ run'.cases = run.cases
      /\ run' = [pc |-> "idle", user |-> run.user, role |-> run.role, cases |-> run.cases]
  BY DEF PortalInv, RunOK, Stops
<1>2. shown'.kind = kind /\ shown'.user = None /\ shown'.case = None
  BY DEF Stops, Blank
<1>3. /\ anonymous' = anonymous /\ member' = member /\ assigned' = assigned
      /\ profile' = profile /\ since' = since
  BY DEF serverVars
<1>4. DataOK'
  BY <1>2, <1>3 DEF PortalInv, DataOK
<1>5. RunOK'
  BY <1>1 DEF RunOK, Reading
<1>6. ShownIsAuthorized'
  BY <1>2, PortalAssumption DEF ShownIsAuthorized
<1> QED
  BY <1>1, <1>4, <1>5, <1>6 DEF PortalInv

\* A run that begins: nothing is on the screen yet.
Starting ==
    /\ Starts /\ UNCHANGED <<front, anonymous, serverVars, since>>
    /\ \/ token' = token \/ token' = None
       \/ shown.kind = "signin" /\ token' \in Users
LEMMA StartKeeps ==
    ASSUME PortalInv, Starting
    PROVE  PortalInv' /\ run'.pc = "start" /\ shown'.kind = "nothing"
<1>1. /\ run'.pc = "start"
      /\ run' = [pc |-> run'.pc, user |-> run'.user, role |-> run'.role, cases |-> run'.cases]
  BY DEF Starting, Starts, Idle
<1>2. shown' = Blank /\ shown'.kind = "nothing" /\ shown'.user = None /\ shown'.case = None
  BY BlankIs DEF Starting, Starts
<1>3. /\ anonymous' = anonymous /\ member' = member /\ assigned' = assigned
      /\ profile' = profile /\ since' = since
  BY DEF Starting, serverVars
<1>4. DataOK'
  BY <1>2, <1>3 DEF PortalInv, DataOK, Starting
<1>5. RunOK'
  BY <1>1, <1>2 DEF RunOK, Reading
<1>6. ShownIsAuthorized'
  BY <1>2, PortalAssumption DEF ShownIsAuthorized
<1> QED
  BY <1>1, <1>2, <1>4, <1>5, <1>6 DEF PortalInv

\* A run goes on to its next read; nothing is shown.
LEMMA BeginDemoKeeps ==
    ASSUME PortalInv, BeginDemo
    PROVE  PortalInv' /\ run'.pc # "idle"
<1>1. /\ run'.pc = "page" /\ run'.role = memory.persona /\ run'.cases = {DemoCase}
      /\ run' = [pc |-> run'.pc, user |-> run'.user, role |-> run'.role, cases |-> run'.cases]
  BY DEF BeginDemo
<1>2. since'.roles = {memory.persona} /\ since'.cases = {DemoCase}
  BY DEF BeginDemo
<1>3. /\ anonymous' = anonymous /\ member' = member /\ assigned' = assigned
      /\ profile' = profile /\ token' = token /\ shown' = shown /\ shown = Blank /\ anonymous
  BY DEF BeginDemo, serverVars, PortalInv, RunOK
<1>4. DemoCase \in Cases /\ DemoCase # "owner-private"
  BY PortalAssumption DEF DemoCase
<1>5. DataOK'
  BY <1>2, <1>3, <1>4 DEF PortalInv, DataOK
<1>6. RunOK'
  BY <1>1, <1>2, <1>3, <1>4 DEF RunOK, Reading
<1>7. ShownIsAuthorized'
  BY <1>3, BlankIs, PortalAssumption DEF ShownIsAuthorized
<1> QED
  BY <1>1, <1>5, <1>6, <1>7 DEF PortalInv

LEMMA BeginKeeps ==
    ASSUME PortalInv, Begin
    PROVE  PortalInv' /\ run'.pc # "idle"
<1>1. /\ run'.pc = "profile" /\ run'.user = token
      /\ run' = [pc |-> run'.pc, user |-> run'.user, role |-> run'.role, cases |-> run'.cases]
  BY DEF Begin, PortalInv, RunOK
<1>2. since'.roles = RolesOf(token) /\ since'.cases = Granted(token)
  BY DEF Begin
<1>3. /\ anonymous' = anonymous /\ member' = member /\ assigned' = assigned
      /\ profile' = profile /\ token' = token /\ shown' = shown /\ shown = Blank
  BY DEF Begin, serverVars, PortalInv, RunOK
<1>4. token \in Users /\ ~anonymous
  BY DEF Begin, PortalInv, DataOK
<1>5. Granted(token) \subseteq Cases
  BY <1>4 DEF Granted, PortalInv, DataOK
<1>6. RolesOf(token)' = RolesOf(token) /\ Granted(token)' = Granted(token)
  BY <1>3 DEF RolesOf, Granted
<1>7. DataOK'
  BY <1>2, <1>3, <1>4, <1>5, BlankIs DEF PortalInv, DataOK
<1>8. RunOK'
  BY <1>1, <1>2, <1>3, <1>4, <1>6 DEF RunOK, Reading
<1>9. ShownIsAuthorized'
  BY <1>3, BlankIs, PortalAssumption DEF ShownIsAuthorized
<1> QED
  BY <1>1, <1>7, <1>8, <1>9 DEF PortalInv

\* The reads: the run is in progress, nothing else changes.
Reads ==
    /\ run'.pc \in Reading /\ run'.user = run.user
    /\ run' = [pc |-> run'.pc, user |-> run'.user, role |-> run'.role, cases |-> run'.cases]
    /\ UNCHANGED <<front, anonymous, serverVars, token, shown, since>>
LEMMA ReadsKeep ==
    ASSUME PortalInv, run.pc \in {"profile", "members", "assignments"}, Reads,
           run'.pc \in {"members", "assignments", "page"} => run'.role \in since.roles,
           run'.pc = "assignments" => run'.cases \subseteq since.cases,
           run'.pc = "page" => run'.cases \subseteq since.cases \cup {"owner-private"},
           run'.pc = "page" => ("owner-private" \in run'.cases => "owner" \in since.roles)
    PROVE  PortalInv' /\ run'.pc # "idle"
<1>1. /\ anonymous' = anonymous /\ member' = member /\ assigned' = assigned
      /\ profile' = profile /\ token' = token /\ shown' = shown /\ since' = since
  BY DEF Reads, serverVars
<1>2. /\ shown = Blank /\ ~anonymous /\ run.user = token /\ token \in Users
      /\ RolesOf(token) \subseteq since.roles /\ Granted(token) \subseteq since.cases
  BY DEF PortalInv, RunOK, Reading
<1>3. RolesOf(token)' = RolesOf(token) /\ Granted(token)' = Granted(token)
  BY <1>1 DEF RolesOf, Granted
<1>4. DataOK'
  BY <1>1 DEF PortalInv, DataOK
<1>5. RunOK'
  BY <1>1, <1>2, <1>3 DEF RunOK, Reads
<1>6. ShownIsAuthorized'
  BY <1>1, <1>2, BlankIs, PortalAssumption DEF ShownIsAuthorized
<1> QED
  BY <1>4, <1>5, <1>6 DEF PortalInv, Reads, Reading

LEMMA ReadProfileKeeps ==
    ASSUME PortalInv, ReadProfile
    PROVE  PortalInv' /\ run'.pc # "idle"
<1>1. /\ run.pc = "profile" /\ run'.pc = "members" /\ run'.role = profile[run.user].role
      /\ run'.user = run.user
      /\ run' = [pc |-> run'.pc, user |-> run'.user, role |-> run'.role, cases |-> run'.cases]
      /\ profile[run.user].active
  BY DEF ReadProfile, PortalInv, RunOK
<1>2. run.user = token /\ RolesOf(token) \subseteq since.roles
  BY <1>1 DEF PortalInv, RunOK, Reading
<1>3. run'.role \in since.roles
  BY <1>1, <1>2 DEF RolesOf
<1>4. Reads
  BY <1>1 DEF ReadProfile, Reads, Reading
<1> QED
  BY <1>1, <1>3, <1>4, ReadsKeep

LEMMA ReadMembershipsKeeps ==
    ASSUME PortalInv, ReadMemberships
    PROVE  PortalInv' /\ run'.pc # "idle"
<1>1. /\ run.pc = "members" /\ run'.pc = "assignments" /\ run'.cases = member[run.user]
      /\ run'.user = run.user /\ run'.role = run.role
      /\ run' = [pc |-> run'.pc, user |-> run'.user, role |-> run'.role, cases |-> run'.cases]
  BY DEF ReadMemberships, PortalInv, RunOK
<1>2. run.user = token /\ Granted(token) \subseteq since.cases /\ run.role \in since.roles
  BY <1>1 DEF PortalInv, RunOK, Reading
<1>3. run'.cases \subseteq since.cases
  BY <1>1, <1>2 DEF Granted
<1>4. Reads
  BY <1>1 DEF ReadMemberships, Reads, Reading
<1> QED
  BY <1>1, <1>2, <1>3, <1>4, ReadsKeep

LEMMA ReadAssignmentsKeeps ==
    ASSUME PortalInv, ReadAssignments
    PROVE  PortalInv' /\ run'.pc # "idle"
<1> DEFINE cases == run.cases \cup assigned[run.user]
<1>1. /\ run.pc = "assignments" /\ run'.pc = "page"
      /\ run'.cases = OwnWorkspace(run.role, cases)
      /\ run'.user = run.user /\ run'.role = run.role
      /\ run' = [pc |-> run'.pc, user |-> run'.user, role |-> run'.role, cases |-> run'.cases]
  BY DEF ReadAssignments, PortalInv, RunOK
<1>2. /\ run.user = token /\ Granted(token) \subseteq since.cases /\ run.role \in since.roles
      /\ run.cases \subseteq since.cases /\ since.cases \subseteq Cases
  BY <1>1 DEF PortalInv, RunOK, DataOK, Reading
<1>3. cases \subseteq since.cases /\ "owner-private" \notin cases
  BY <1>2, PortalAssumption DEF Granted
<1> HIDE DEF cases
<1>4. /\ run'.cases \subseteq since.cases \cup {"owner-private"}
      /\ "owner-private" \in run'.cases => "owner" \in since.roles
  BY <1>1, <1>2, <1>3 DEF OwnWorkspace
<1>5. Reads
  BY <1>1 DEF ReadAssignments, Reads, Reading
<1> QED
  BY <1>1, <1>2, <1>4, <1>5, ReadsKeep

\* A run that goes on keeps its user.
LEMMA RunStepKeeps ==
    ASSUME PortalInv, RunStep
    PROVE  /\ PortalInv' /\ run.pc # "idle"
           /\ run'.pc # "idle" => UNCHANGED <<token, anonymous>>
<1>1. CASE BeginDemo
  BY <1>1, BeginDemoKeeps DEF BeginDemo
<1>2. CASE Begin
  BY <1>2, BeginKeeps DEF Begin
<1>3. CASE ReadProfile
  BY <1>3, ReadProfileKeeps DEF ReadProfile
<1>4. CASE ReadMemberships
  BY <1>4, ReadMembershipsKeeps DEF ReadMemberships
<1>5. CASE ReadAssignments
  BY <1>5, ReadAssignmentsKeeps DEF ReadAssignments
<1>6. CASE BeginSignedOut
  BY <1>6, StopKeeps DEF BeginSignedOut
<1>7. CASE RefreshFails
  BY <1>7, StopKeeps DEF RefreshFails
<1>8. CASE Refused
  BY <1>8, StopKeeps DEF Refused, SignedOut
<1>9. CASE WithoutCase
  BY <1>9, StopKeeps DEF WithoutCase
<1> QED
  BY <1>1, <1>2, <1>3, <1>4, <1>5, <1>6, <1>7, <1>8, <1>9 DEF RunStep

-----------------------------------------------------------------------------
(* What a run shows. *)

\* The case is one the run has read.
LEMMA SelectedIs ==
    ASSUME run.cases # {}
    PROVE  SelectedCase \in run.cases
BY DEF SelectedCase

LEMMA DashboardIs ==
    ASSUME NEW role, role # "owner"
    PROVE  "Dashboard" \in Pages(role)
<1>1. Permits(role, "Dashboard")
  BY DEF Permits, Needs
<1>2. "Dashboard" \in PortalPages(role)
  BY <1>1 DEF PortalPages, ClientPages, AdminPages, EmployeePages
<1>3. "Dashboard" \in VisiblePages(role)
  BY <1>1 DEF VisiblePages, ClientPages, ReferencePages
<1> QED
  BY <1>2, <1>3 DEF Pages

LEMMA RendersKeeps ==
    ASSUME PortalInv, run.pc = "page", run.cases # {}, NEW kind \in {"page", "refused", "locked"}, NEW page,
           Renders(kind, page),
           kind = "page" =>
              IF run.role = "owner" THEN page \in OwnerLabels
              ELSE Permits(run.role, page) /\ page \in Pages(run.role)
    PROVE  PortalInv' /\ run'.pc = "idle"
<1>1. /\ run'.pc = "idle"
      /\ run' = [pc |-> run'.pc, user |-> run'.user, role |-> run'.role, cases |-> run'.cases]
  BY DEF Renders, PortalInv, RunOK
<1>2. /\ shown'.kind = kind /\ shown'.user = run.user /\ shown'.role = run.role
      /\ shown'.page = page /\ shown'.case = SelectedCase
  BY DEF Renders
<1>3. /\ anonymous' = anonymous /\ member' = member /\ assigned' = assigned
      /\ profile' = profile /\ token' = token /\ since' = since /\ front' = front
  BY DEF Renders, serverVars
<1>4. /\ ~anonymous => run.user = token
      /\ run.role \in since.roles /\ run.cases \subseteq since.cases \cup {"owner-private"}
      /\ "owner-private" \in run.cases => "owner" \in since.roles
  BY DEF PortalInv, RunOK, Reading
<1>5. DataOK'
  BY <1>2, <1>3, <1>4 DEF PortalInv, DataOK
<1>6. RunOK'
  BY <1>1 DEF RunOK, Reading
<1>7. ShownIsAuthorized'
  <2>1. shown'.case \in since.cases \cup {"owner-private"}
    BY <1>2, <1>4, SelectedIs
  <2>2. shown'.case = "owner-private" => "owner" \in since.roles
    BY <1>2, <1>4, SelectedIs
  <2>3. \A role : Experience(role)' = Experience(role) /\ Pages(role)' = Pages(role)
    BY <1>3 DEF Experience, Pages
  <2>4. shown'.kind = "page" =>
          /\ shown'.role \in since.roles
          /\ IF shown'.role = "owner" THEN shown'.page \in OwnerLabels
             ELSE Permits(shown'.role, shown'.page) /\ shown'.page \in Pages(shown'.role)
    BY <1>2, <1>4
  <2> QED
    BY <1>3, <2>1, <2>2, <2>3, <2>4 DEF ShownIsAuthorized
<1> QED
  BY <1>1, <1>5, <1>6, <1>7 DEF PortalInv

LEMMA ShowsKeeps ==
    ASSUME PortalInv, Shows
    PROVE  /\ PortalInv' /\ run.pc = "page" /\ run'.pc = "idle"
           /\ run'.user = run.user /\ shown'.user = run.user
           /\ UNCHANGED <<front, token, anonymous, since>>
<1>1. ASSUME NEW kind, NEW page, Renders(kind, page)
      PROVE  /\ run'.user = run.user /\ shown'.user = run.user
             /\ UNCHANGED <<front, token, anonymous, since>>
  BY <1>1 DEF Renders, PortalInv, RunOK
<1>2. CASE ShowLocked
  BY <1>1, <1>2, RendersKeeps DEF ShowLocked
<1>3. CASE ShowOwner
  <2>1. PICK default \in OwnerDefaults :
          Renders("page", IF memory.page[run.user] \in OwnerLabels
                            THEN memory.page[run.user] ELSE default)
    BY <1>3 DEF ShowOwner
  <2>2. default \in OwnerLabels
    BY DEF OwnerDefaults, OwnerLabels
  <2>3. (IF memory.page[run.user] \in OwnerLabels THEN memory.page[run.user] ELSE default)
           \in OwnerLabels
    BY <2>2
  <2>4. run.pc = "page" /\ run.cases # {} /\ run.role = "owner"
    BY <1>3 DEF ShowOwner
  <2> QED
    BY <1>1, <2>1, <2>3, <2>4, RendersKeeps
<1>4. CASE ShowPage
  <2>1. /\ run.pc = "page" /\ run.cases # {} /\ run.role # "owner"
        /\ Renders(IF Permits(run.role, SelectedPage) THEN "page" ELSE "refused", SelectedPage)
    BY <1>4 DEF ShowPage
  <2>2. SelectedPage \in Pages(run.role)
    BY <2>1, DashboardIs DEF SelectedPage
  <2>3. CASE Permits(run.role, SelectedPage)
    BY <1>1, <2>1, <2>2, <2>3, RendersKeeps
  <2>4. CASE ~Permits(run.role, SelectedPage)
    <3>1. Renders("refused", SelectedPage)
      BY <2>1, <2>4
    <3> QED
      BY <1>1, <2>1, <3>1, RendersKeeps
  <2> QED
    BY <2>3, <2>4
<1> QED
  BY <1>2, <1>3, <1>4 DEF Shows

-----------------------------------------------------------------------------
(* Clicks, and what others change. *)

LEMMA UserStepStarts ==
    ASSUME PortalInv, UserStep
    PROVE  Starting /\ run.pc = "idle"
<1>1. ASSUME NEW m, Click(m)
      PROVE  /\ Starts /\ UNCHANGED <<front, anonymous, serverVars, since>> /\ run.pc = "idle"
  BY <1>1 DEF Click
<1>2. ASSUME NEW m, Click(m),
             token' = token \/ token' = None \/ (shown.kind = "signin" /\ token' \in Users)
      PROVE  Starting /\ run.pc = "idle"
  BY <1>1, <1>2 DEF Starting
<1>3. ASSUME NEW page, NEW case, Opened(page, case)
      PROVE  Starting /\ run.pc = "idle"
  BY <1>2, <1>3 DEF Opened
<1>4. ASSUME NEW u \in Users, SignIn(u)
      PROVE  Starting /\ run.pc = "idle"
  BY <1>2, <1>4 DEF SignIn
<1>5. CASE Rerun \/ Reload \/ LogOut
  BY <1>2, <1>5 DEF Rerun, Reload, LogOut, SignedOut
<1>6. ASSUME NEW page, Navigate(page) \/ AskProfile(page)
      PROVE  Starting /\ run.pc = "idle"
  BY <1>2, <1>6 DEF Navigate, AskProfile
<1>7. ASSUME NEW page,
             Open(page) \/ OpenCard(page) \/ OpenFound(page) \/ OpenPrivate(page) \/ Footer(page)
      PROVE  Starting /\ run.pc = "idle"
  BY <1>3, <1>7 DEF Open, OpenCard, OpenFound, OpenPrivate, Footer
<1>8. ASSUME NEW page, NEW case,
             AskAdmin(page, case) \/ OpenStage(page, case) \/ OpenClient(page, case)
      PROVE  Starting /\ run.pc = "idle"
  <2>1. CASE AskAdmin(page, case)
    BY <1>2, <2>1 DEF AskAdmin
  <2>2. CASE OpenStage(page, case) \/ OpenClient(page, case)
    BY <1>3, <2>2 DEF OpenStage, OpenClient
  <2> QED
    BY <1>8, <2>1, <2>2
<1>9. ASSUME NEW x, ViewAs(x) \/ SwitchCase(x) \/ SwitchPersona(x)
      PROVE  Starting /\ run.pc = "idle"
  BY <1>2, <1>9 DEF ViewAs, SwitchCase, SwitchPersona
<1> QED
  BY <1>4, <1>5, <1>6, <1>7, <1>8, <1>9 DEF UserStep

\* Whatever is changed or taken away meanwhile was so when the run began, or since.
LEMMA EnvironmentKeeps ==
    ASSUME PortalInv, Environment, ~anonymous
    PROVE  /\ PortalInv'
           /\ UNCHANGED <<front, anonymous, token, memory, run, shown>>
<1>1. PICK u \in Users : Meanwhile(u) /\
             \/ /\ UNCHANGED <<member, assigned>>
                /\ \/ \E role \in GivenRoles : profile' = [profile EXCEPT ![u].role = role]
                   \/ profile' = [profile EXCEPT ![u].active = ~@]
             \/ /\ UNCHANGED profile
                /\ \E c \in Cases :
                      \/ member' = [member EXCEPT ![u] = Toggled(@, c)] /\ UNCHANGED assigned
                      \/ assigned' = [assigned EXCEPT ![u] = Toggled(@, c)] /\ UNCHANGED member
  BY Zenon DEF Environment, ProfileChanges, GrantChanges
<1>2. UNCHANGED <<front, anonymous, token, memory, run, shown>>
  BY <1>1 DEF Meanwhile
<1>3. /\ member \in [Users -> SUBSET Cases] /\ assigned \in [Users -> SUBSET Cases]
      /\ profile \in [Users -> Profile]
  BY DEF PortalInv, DataOK
<1>4. /\ member' \in [Users -> SUBSET Cases] /\ assigned' \in [Users -> SUBSET Cases]
      /\ \A t \in Users : t # u => member'[t] = member[t] /\ assigned'[t] = assigned[t]
  BY <1>1, <1>3 DEF Toggled
<1>5. /\ profile' \in [Users -> Profile]
      /\ \A t \in Users : t # u => profile'[t] = profile[t]
  <2>1. CASE \E role \in GivenRoles : profile' = [profile EXCEPT ![u].role = role]
    BY <1>3, <2>1, PortalAssumption DEF Profile, Roles
  <2>2. CASE profile' = [profile EXCEPT ![u].active = ~@]
    BY <1>3, <2>2 DEF Profile
  <2>3. CASE UNCHANGED profile
    BY <1>3, <2>3
  <2> QED
    BY <1>1, <2>1, <2>2, <2>3
\* The ghost grows, by what its run's user has got.
<1>6. since.roles \subseteq since'.roles /\ since.cases \subseteq since'.cases
  BY <1>1 DEF Meanwhile
<1>7. since'.cases \subseteq Cases
  <2>1. member'[u] \subseteq Cases /\ assigned'[u] \subseteq Cases /\ since.cases \subseteq Cases
    BY <1>4 DEF PortalInv, DataOK
  <2> QED
    BY <1>1, <2>1 DEF Meanwhile
<1>8. ASSUME run.pc \in Reading
      PROVE  RolesOf(token)' \subseteq since'.roles /\ Granted(token)' \subseteq since'.cases
  <2>1. /\ run.user = token /\ token \in Users /\ token' = token
        /\ RolesOf(token) \subseteq since.roles /\ Granted(token) \subseteq since.cases
    BY <1>2, <1>8 DEF PortalInv, RunOK
  <2>2. RolesOf(token)' = IF profile'[token].active THEN {profile'[token].role} ELSE {}
    BY <2>1 DEF RolesOf
  <2>3. Granted(token)' = member'[token] \cup assigned'[token]
    BY <2>1 DEF Granted
  <2>4. CASE u = token
    <3>1. run.pc \notin {"idle", "start"} /\ run.user = u
      BY <1>8, <2>1, <2>4 DEF Reading
    <3>2. /\ since'.roles = since.roles
                \cup (IF profile'[u].active THEN {profile'[u].role} ELSE {})
          /\ since'.cases = since.cases \cup member'[u] \cup assigned'[u]
      BY <1>1, <3>1 DEF Meanwhile
    <3> QED
      BY <2>2, <2>3, <2>4, <3>2
  <2>5. CASE u # token
    <3>1. profile'[token] = profile[token] /\ member'[token] = member[token]
          /\ assigned'[token] = assigned[token]
      BY <1>4, <1>5, <2>1, <2>5
    <3> QED
      BY <1>6, <2>1, <2>2, <2>3, <3>1 DEF RolesOf, Granted
  <2> QED
    BY <2>4, <2>5
<1>9. DataOK'
  BY <1>2, <1>4, <1>5, <1>7 DEF PortalInv, DataOK
<1>10. RunOK'
  BY <1>2, <1>6, <1>8 DEF PortalInv, RunOK
<1>11. ShownIsAuthorized'
  <2>1. \A role : Experience(role)' = Experience(role) /\ Pages(role)' = Pages(role)
    BY <1>2 DEF Experience, Pages
  <2> QED
    BY <1>2, <1>6, <2>1 DEF PortalInv, ShownIsAuthorized
<1> QED
  BY <1>2, <1>9, <1>10, <1>11 DEF PortalInv

LEMMA PortalStays ==
    ASSUME PortalInv, UNCHANGED <<front, anonymous, serverVars, token, run, shown, since>>
    PROVE  PortalInv'
<1>1. DataOK' /\ RunOK'
  BY DEF PortalInv, DataOK, RunOK, serverVars, RolesOf, Granted
<1>2. \A role : Experience(role)' = Experience(role) /\ Pages(role)' = Pages(role)
  BY DEF Experience, Pages
<1>3. ShownIsAuthorized'
  BY <1>2 DEF PortalInv, ShownIsAuthorized
<1> QED
  BY <1>1, <1>3 DEF PortalInv

LEMMA PortalInitHolds == PortalInit => PortalInv
<1> SUFFICES ASSUME PortalInit PROVE PortalInv
  OBVIOUS
<1>1. token = None /\ since.cases = {} /\ shown = Blank
  BY DEF PortalInit
<1>2. member \in [Users -> SUBSET Cases] /\ assigned \in [Users -> SUBSET Cases]
  BY DEF PortalInit
<1>3. profile \in [Users -> Profile]
  <2>1. [role : {"client"}, active : {FALSE}] \subseteq Profile
    BY DEF Profile, Roles
  <2>2. ASSUME NEW cast \in Casts
        PROVE  [u \in Users |-> [role |-> cast[u], active |-> TRUE]] \in [Users -> Profile]
    <3>1. \A u \in Users : cast[u] \in Roles
      BY PortalAssumption DEF Roles
    <3> QED
      BY <3>1 DEF Profile
  <2>3. \/ profile \in [Users -> [role : {"client"}, active : {FALSE}]]
        \/ profile \in {[u \in Users |-> [role |-> cast[u], active |-> TRUE]] : cast \in Casts}
    BY DEF PortalInit
  <2> QED
    BY <2>1, <2>2, <2>3
<1>4. DataOK
  BY <1>1, <1>2, <1>3, BlankIs DEF DataOK
<1>5. run = [pc |-> "start", user |-> None, role |-> None, cases |-> {}]
  BY DEF PortalInit, Idle
<1>6. RunOK
  BY <1>1, <1>5 DEF RunOK, Reading
<1>7. ShownIsAuthorized
  BY <1>1, BlankIs, PortalAssumption DEF ShownIsAuthorized
<1> QED
  BY <1>4, <1>6, <1>7 DEF PortalInv

-----------------------------------------------------------------------------
(* The desk. *)

LEMMA NothingIs ==
    NoCall.step = "none" /\ NoClick.kind = "none"
BY DEF NoCall, NoClick

LEMMA RefreshedIs ==
    ASSUME NEW row \in Rows, NEW case \in {"OPEN", "CLOSED", "ARCHIVED"}, NEW delivered \in BOOLEAN
    PROVE  /\ Refreshed(row, case, delivered) \in Rows
           /\ Refreshed(row, case, delivered)["CLOSEOUT"] =
                 IF case # "OPEN" /\ row["CLOSEOUT"] = "IN_PROGRESS" THEN "COMPLETE" ELSE row["CLOSEOUT"]
           /\ \A k \in Checkpoints :
                 Refreshed(row, case, delivered)[k] = "NOT_APPLICABLE" => row[k] = "NOT_APPLICABLE"
BY DEF Refreshed, Rows, Checkpoints, Statuses

\* What ClosedWasComplete says of one case.
RowOK(row, case, found, synthetic) ==
    /\ case \in {"CLOSED", "ARCHIVED"} => "CLOSEOUT" \in found
    /\ case = "ARCHIVED" => "ARCHIVE" \in found
    /\ \A k \in Checkpoints : row[k] = "NOT_APPLICABLE" => synthetic
    /\ row["CLOSEOUT"] = "COMPLETE" => case # "OPEN"
    /\ row["CLOSEOUT"] = "IN_PROGRESS" => case = "OPEN"
LEMMA RowsAre ==
    ClosedWasComplete <=> \A c \in Cases : RowOK(status[c], caseStatus[c], ready[c], c \in Synthetic)
BY DEF ClosedWasComplete, RowOK

LEMMA CasesStay ==
    ASSUME CasesOK, UNCHANGED <<status, caseStatus, ready>>
    PROVE  CasesOK'
BY DEF CasesOK, ClosedWasComplete

LEMMA ClicksStay ==
    ASSUME ClicksOK, UNCHANGED <<front, anonymous, token, run, shown, rows, list, pending>>,
           meant \subseteq meant'
    PROVE  ClicksOK'
BY DEF ClicksOK, MeantBy, Controls, Decides

LEMMA DecidedStays ==
    ASSUME DecidedOK, decided' = decided, meant \subseteq meant'
    PROVE  DecidedOK'
BY DEF DecidedOK, DecisionIsMeant

LEMMA CallsStay ==
    ASSUME CallsOK, UNCHANGED <<call, ready>>, meant \subseteq meant',
           run'.pc # "idle" => call["self"] = NoCall,
           call["self"] = NoCall \/ run'.user = run.user
    PROVE  CallsOK'
BY NothingIs DEF CallsOK, MeantBy

LEMMA DeskRunsKeeps ==
    ASSUME Inv, DeskRuns
    PROVE  Inv'
<1>1. /\ PortalInv' /\ run.pc # "idle"
      /\ run'.pc # "idle" => UNCHANGED <<token, anonymous>>
  BY RunStepKeeps DEF Inv, DeskRuns
<1>2. /\ pending' = IF run'.pc = "idle" THEN NoClick ELSE pending
      /\ UNCHANGED <<status, caseStatus, decided, rows, list, call, meant, ready>>
  BY DEF DeskRuns
<1>3. rows = None /\ list = <<>> /\ call["self"] = NoCall
  BY <1>1 DEF Inv, ClicksOK, CallsOK
<1>4. ClicksOK'
  BY <1>1, <1>2, <1>3, NothingIs DEF Inv, ClicksOK, MeantBy
<1>5. CallsOK'
  BY <1>2, <1>3, CallsStay DEF Inv
<1>6. DecidedOK' /\ CasesOK'
  BY <1>2, DecidedStays, CasesStay DEF Inv
<1> QED
  BY <1>1, <1>4, <1>5, <1>6 DEF Inv

LEMMA ClickElsewhereKeeps ==
    ASSUME Inv, ClickElsewhere
    PROVE  Inv'
<1>1. PortalInv' /\ run'.pc = "start" /\ run.pc = "idle"
  BY UserStepStarts, StartKeeps DEF Inv, ClickElsewhere
<1>2. /\ rows' = None /\ list' = <<>> /\ pending' = NoClick /\ call["self"] = NoCall
      /\ UNCHANGED <<status, caseStatus, decided, call, meant, ready>>
  BY <1>1 DEF ClickElsewhere, Cleared, Free, Inv, ClicksOK
<1>3. ClicksOK'
  BY <1>1, <1>2, NothingIs DEF ClicksOK
<1>4. CallsOK'
  BY <1>2, CallsStay DEF Inv
<1>5. DecidedOK' /\ CasesOK'
  BY <1>2, DecidedStays, CasesStay DEF Inv
<1> QED
  BY <1>1, <1>3, <1>4, <1>5 DEF Inv

LEMMA DeskClicksKeeps ==
    ASSUME Inv, DeskClicks
    PROVE  Inv'
<1>1. ASSUME NEW p, DeskClick(p), meant \subseteq meant',
             p.kind \in {"transition", "request", "decision"},
             p.kind = "transition" => p.case \in Cases /\ p.to \in Statuses,
             p.kind = "decision" => ~anonymous /\ MeantBy(token, p, meant')
      PROVE  Inv'
  <2>1. Starting /\ run.pc = "idle"
    BY <1>1 DEF DeskClick, Click, Starting
  <2>2. PortalInv' /\ run'.pc = "start"
    BY <2>1, StartKeeps DEF Inv
  <2>3. /\ rows' = None /\ list' = <<>> /\ pending' = p /\ call["self"] = NoCall
        /\ UNCHANGED <<status, caseStatus, decided, call, ready, token, anonymous>>
    BY <1>1 DEF DeskClick, Cleared, Free, Click
  <2>4. ClicksOK'
    BY <1>1, <2>2, <2>3 DEF ClicksOK
  <2>5. CallsOK'
    BY <1>1, <2>3, CallsStay DEF Inv
  <2>6. DecidedOK' /\ CasesOK'
    BY <1>1, <2>3, DecidedStays, CasesStay DEF Inv
  <2> QED
    BY <2>2, <2>4, <2>5, <2>6 DEF Inv
<1>2. ASSUME NEW key \in Checkpoints, NEW to \in Statuses, ClickTransition(key, to)
      PROVE  Inv'
  <2> DEFINE p == [kind |-> "transition", case |-> shown.case, key |-> key, to |-> to, rows |-> rows]
  <2>1. shown.case \in Cases
    BY <1>2 DEF ClickTransition, Inv, ClicksOK, Controls
  <2>2. p.kind = "transition" /\ p.case \in Cases /\ p.to \in Statuses
    BY <2>1
  <2>3. DeskClick(p) /\ meant' = meant
    BY <1>2 DEF ClickTransition
  <2> HIDE DEF p
  <2> QED
    BY <1>1, <2>2, <2>3
<1>3. CASE ClickRequest
  <2> DEFINE p == [kind |-> "request", case |-> shown.case]
  <2>1. p.kind = "request" /\ DeskClick(p) /\ meant' = meant
    BY <1>3 DEF ClickRequest
  <2> HIDE DEF p
  <2> QED
    BY <1>1, <2>1
<1>4. ASSUME NEW index, NEW decision, NEW confirmed \in BOOLEAN,
             ClickDecision(index, decision, confirmed)
      PROVE  Inv'
  <2> DEFINE p == [kind |-> "decision", index |-> index, key |-> list[index],
                   decision |-> decision, confirmed |-> confirmed]
             m == [user |-> shown.user, key |-> list[index],
                   decision |-> decision, confirmed |-> confirmed]
  <2>1. /\ index \in DOMAIN list
        /\ list[index] \in Protected /\ decision = "APPROVE" => confirmed
        /\ meant' = meant \cup {m} /\ DeskClick(p)
    BY <1>4 DEF ClickDecision
  <2>2. list # <<>>
    BY <2>1
  <2>3. shown.user = token /\ ~anonymous
    BY <2>2 DEF Inv, ClicksOK, Decides, PortalInv, DataOK
  <2>4. /\ p.kind = "decision" /\ p.key = list[index] /\ p.decision = decision
        /\ p.confirmed = confirmed
    OBVIOUS
  <2>5. MeantBy(token, p, meant')
    BY <2>1, <2>3, <2>4 DEF MeantBy
  <2> HIDE DEF p, m
  <2> QED
    BY <1>1, <2>1, <2>3, <2>4, <2>5
<1> QED
  BY <1>2, <1>3, <1>4 DEF DeskClicks

\* The call a run makes for the click it remembers.
LEMMA CallsMade ==
    ASSUME Inv, DeskShows, NEW c \in Calls(shown', rows', list')
    PROVE  \/ c.step = "request"
           \/ c \in Transition /\ c.step = "authority"
           \/ c.step = "decide" /\ MeantBy(run.user, c, meant)
<1>1. /\ run.pc = "page" /\ (~anonymous => run.user = token /\ token \in Users)
      /\ shown'.user = run.user /\ anonymous' = anonymous
  BY ShowsKeeps DEF DeskShows, Inv, PortalInv, RunOK, Reading
<1>2. /\ pending.kind \in {"none", "transition", "request", "decision"}
      /\ pending.kind = "transition" => pending.case \in Cases /\ pending.to \in Statuses
      /\ pending.kind = "decision" => ~anonymous /\ MeantBy(token, pending, meant)
  BY DEF Inv, ClicksOK
<1>3. CASE pending.kind = "transition"
  <2>1. c \in TransitionCalls(shown', rows')
    BY <1>3 DEF Calls
  <2>2. PICK k \in Options(shown'.role) :
          /\ c = [step |-> "authority", user |-> shown'.user, case |-> shown'.case, key |-> k,
                  to |-> pending.to, settled |-> FALSE]
          /\ shown'.case = pending.case /\ rows' # None
    BY <2>1 DEF TransitionCalls
  <2>3. k \in Checkpoints
    BY DEF Options, Checkpoints
  <2>4. shown'.user \in Users
    BY <1>1, <2>2 DEF DeskShows, Controls
  <2> QED
    BY <1>2, <1>3, <2>2, <2>3, <2>4 DEF Transition
<1>4. CASE pending.kind = "request"
  <2>1. c \in RequestCalls(shown')
    BY <1>4 DEF Calls
  <2> QED
    BY <2>1 DEF RequestCalls
<1>5. CASE pending.kind = "decision"
  <2>1. c \in DecisionCalls(list')
    BY <1>5 DEF Calls
  <2>2. c = [step |-> "decide", key |-> pending.key, decision |-> pending.decision,
             confirmed |-> pending.confirmed]
    BY <2>1 DEF DecisionCalls
  <2>3. /\ c.step = "decide" /\ c.key = pending.key /\ c.decision = pending.decision
        /\ c.confirmed = pending.confirmed
    BY <2>2
  <2>4. MeantBy(run.user, pending, meant)
    BY <1>1, <1>2, <1>5
  <2> QED
    BY <2>3, <2>4 DEF MeantBy
<1>6. pending.kind # "none"
  BY DEF Calls
<1> QED
  BY <1>2, <1>3, <1>4, <1>5, <1>6

LEMMA DeskShowsKeeps ==
    ASSUME Inv, DeskShows
    PROVE  Inv'
<1>1. /\ PortalInv' /\ run.pc = "page" /\ run'.pc = "idle" /\ run'.user = run.user
      /\ UNCHANGED <<front, token, anonymous, since>>
  BY ShowsKeeps DEF DeskShows, Inv
<1>2. pending' = NoClick /\ UNCHANGED <<caseStatus, decided, meant, ready>>
  BY DEF DeskShows
<1>3. /\ Controls(shown)' = Controls(shown') /\ Decides(shown)' = Decides(shown')
  BY <1>1 DEF Controls, Decides
<1>4. ClicksOK'
  <2>1. rows' # None => Controls(shown')
    BY DEF DeskShows
  <2>2. list' # <<>> => Decides(shown')
    BY DEF DeskShows
  <2> QED
    BY <1>1, <1>2, <1>3, <2>1, <2>2, NothingIs DEF ClicksOK
<1>5. CallsOK'
  <2>1. PICK c \in Calls(shown', rows', list') \cup {NoCall} :
          call' = [call EXCEPT !["self"] = c]
    BY DEF DeskShows
  <2>2. /\ CallOK(c, ready)
        /\ c.step = "decide" => MeantBy(run.user, c, meant)
    <3>1. CASE c = NoCall
      BY <3>1, NothingIs DEF CallOK
    <3>2. CASE c \in Calls(shown', rows', list')
      <4>1. \/ c.step = "request"
            \/ c \in Transition /\ c.step = "authority"
            \/ c.step = "decide" /\ MeantBy(run.user, c, meant)
        BY <3>2, CallsMade
      <4> QED
        BY <4>1 DEF CallOK
    <3> QED
      BY <2>1, <3>1, <3>2
  <2>3. call = [w \in Workers |-> call[w]] /\ \A w \in Workers : CallOK(call[w], ready)
    BY DEF Inv, CallsOK
  <2>4. /\ call' = [w \in Workers |-> call'[w]] /\ call'["self"] = c
        /\ \A w \in Workers : w # "self" => call'[w] = call[w]
    BY <2>1, <2>3 DEF Workers
  <2> QED
    BY <1>1, <1>2, <2>2, <2>3, <2>4 DEF CallsOK
<1>6. CasesOK'
  <2>1. CASE UNCHANGED status
    BY <1>2, <2>1, CasesStay DEF Inv
  <2>2. CASE /\ Controls(shown')
             /\ status' = [status EXCEPT ![shown'.case] =
                   Refreshed(@, caseStatus[shown'.case], shown'.case \in published)]
    <3> DEFINE c == shown'.case
               out == c \in published
               row == Refreshed(status[c], caseStatus[c], out)
    <3>1. c \in Cases
      BY <2>2 DEF Controls
    <3>2. status' = [status EXCEPT ![c] = row]
      BY <2>2
    <3> HIDE DEF c
    <3>. out \in BOOLEAN
      OBVIOUS
    <3> HIDE DEF out
    <3>3. /\ status \in [Cases -> Rows]
          /\ caseStatus \in [Cases -> {"OPEN", "CLOSED", "ARCHIVED"}]
          /\ \A d \in Cases : RowOK(status[d], caseStatus[d], ready[d], d \in Synthetic)
      BY RowsAre DEF Inv, CasesOK
    <3>4. /\ row \in Rows
          /\ row["CLOSEOUT"] = IF caseStatus[c] # "OPEN" /\ status[c]["CLOSEOUT"] = "IN_PROGRESS"
                                 THEN "COMPLETE" ELSE status[c]["CLOSEOUT"]
          /\ \A k \in Checkpoints : row[k] = "NOT_APPLICABLE" => status[c][k] = "NOT_APPLICABLE"
      <4>1. status[c] \in Rows /\ caseStatus[c] \in {"OPEN", "CLOSED", "ARCHIVED"}
        BY <3>1, <3>3
      <4> DEFINE was == status[c]
                 now == caseStatus[c]
      <4> HIDE DEF was, now
      <4>2. was \in Rows /\ now \in {"OPEN", "CLOSED", "ARCHIVED"}
        BY <4>1 DEF was, now
      <4>3. /\ Refreshed(was, now, out) \in Rows
            /\ Refreshed(was, now, out)["CLOSEOUT"] =
                  IF now # "OPEN" /\ was["CLOSEOUT"] = "IN_PROGRESS" THEN "COMPLETE" ELSE was["CLOSEOUT"]
            /\ \A k \in Checkpoints :
                  Refreshed(was, now, out)[k] = "NOT_APPLICABLE" => was[k] = "NOT_APPLICABLE"
        BY <4>2, RefreshedIs
      <4> QED
        BY <4>3 DEF was, now
    <3> HIDE DEF row
    <3>5. RowOK(row, caseStatus[c], ready[c], c \in Synthetic)
      BY <3>1, <3>3, <3>4 DEF RowOK
    <3>6. /\ status' \in [Cases -> Rows]
          /\ \A d \in Cases : status'[d] = IF d = c THEN row ELSE status[d]
      BY <3>1, <3>2, <3>3, <3>4
    <3>7. \A d \in Cases : RowOK(status'[d], caseStatus'[d], ready'[d], d \in Synthetic)
      BY <1>2, <3>3, <3>5, <3>6
    <3>8. ClosedWasComplete'
      BY <3>7 DEF ClosedWasComplete, RowOK
    <3> QED
      BY <1>2, <3>6, <3>8 DEF Inv, CasesOK
  <2> QED
    BY <2>1, <2>2 DEF DeskShows
<1>7. DecidedOK'
  BY <1>2, DecidedStays DEF Inv
<1> QED
  BY <1>1, <1>4, <1>5, <1>6, <1>7 DEF Inv

\* The evidence is there: what a transition wants to complete was found ready.
LEMMA EvidenceIs ==
    ASSUME CasesOK, CallsOK, NEW c \in Transition, c.settled, Evidence(c.case, c.key),
           ready' = IF c.settled /\ Proven(c.case, c.key)
                      THEN [ready EXCEPT ![c.case] = @ \cup {c.key}] ELSE ready,
           UNCHANGED <<status, caseStatus>>
    PROVE  /\ CasesOK' /\ \A w \in Workers : CallOK(call[w], ready')
           /\ c.key \in ready'[c.case]
<1>1. c.case \in Cases /\ c.key \in Checkpoints
  BY DEF Transition
<1>2. Proven(c.case, c.key)
  BY <1>1 DEF Evidence, Proven, Checkpoints
<1>3. c.key = "ARCHIVE" => caseStatus[c.case] = "CLOSED"
  BY <1>2 DEF Proven
<1>4. ready' = [ready EXCEPT ![c.case] = @ \cup {c.key}]
  BY <1>2
<1>5. ready \in [Cases -> SUBSET Checkpoints]
  BY DEF CasesOK
<1>6. /\ ready' \in [Cases -> SUBSET Checkpoints]
      /\ \A d \in Cases : ready[d] \subseteq ready'[d]
      /\ \A d \in Cases : d # c.case => ready'[d] = ready[d]
      /\ ready'[c.case] = ready[c.case] \cup {c.key}
  BY <1>1, <1>4, <1>5
<1>7. "ARCHIVE" \in ready'[c.case] => "CLOSEOUT" \in ready'[c.case]
  <2>1. CASE c.key = "ARCHIVE"
    <3>1. "CLOSEOUT" \in ready[c.case]
      BY <1>1, <1>3, <2>1 DEF CasesOK, ClosedWasComplete
    <3> QED
      BY <1>6, <3>1
  <2>2. CASE c.key # "ARCHIVE"
    BY <1>1, <1>6, <2>2 DEF CasesOK
  <2> QED
    BY <2>1, <2>2
<1>8. CasesOK'
  BY <1>1, <1>6, <1>7 DEF CasesOK, ClosedWasComplete
<1>9. ASSUME NEW w \in Workers
      PROVE  CallOK(call[w], ready')
  <2>1. CallOK(call[w], ready)
    BY DEF CallsOK
  <2>2. call[w].step = "write" => call[w].case \in Cases
    BY <2>1, NothingIs DEF CallOK, Transition
  <2> QED
    BY <1>6, <2>1, <2>2 DEF CallOK
<1> QED
  BY <1>6, <1>8, <1>9

\* One call of a worker becomes another, and the click is not touched.
LEMMA CallTurns ==
    ASSUME CallsOK, NEW w \in Workers, NEW c, call' = [call EXCEPT ![w] = c],
           CallOK(c, ready'), \A x \in Workers : CallOK(call[x], ready'),
           meant' = meant,
           w = "self" => (c.step = "decide" => MeantBy(run'.user, c, meant)),
           w # "self" => run' = run,
           w = "self" => (run'.pc # "idle" => c = NoCall)
    PROVE  CallsOK'
<1>1. call = [x \in Workers |-> call[x]]
  BY DEF CallsOK
<1>2. /\ call' = [x \in Workers |-> call'[x]] /\ call'[w] = c
      /\ \A x \in Workers : x # w => call'[x] = call[x]
  BY <1>1
<1>3. "self" \in Workers
  BY DEF Workers
<1>4. \A x \in Workers : CallOK(call'[x], ready')
  BY <1>2
<1>5. CASE w = "self"
  BY <1>2, <1>4, <1>5 DEF CallsOK
<1>6. CASE w # "self"
  BY <1>2, <1>3, <1>4, <1>6 DEF CallsOK
<1> QED
  BY <1>5, <1>6

\* The end of a call: either the script starts again or all stays as it is.
LEMMA EndsKeeps ==
    ASSUME Inv, NEW w \in Workers, call[w] # NoCall, Ends(w), ready' = ready
    PROVE  PortalInv' /\ ClicksOK' /\ CallsOK'
<1>1. /\ call' = [call EXCEPT ![w] = NoCall]
      /\ UNCHANGED <<front, anonymous, serverVars, token, since, pending, meant>>
  BY DEF Ends
<1>2. \/ w = "self" /\ Starts /\ rows' = None /\ list' = <<>>
      \/ UNCHANGED <<run, shown, rows, list>>
  BY DEF Ends
<1>3. /\ CallOK(NoCall, ready') /\ \A x \in Workers : CallOK(call[x], ready')
      /\ NoCall.step # "decide"
  BY NothingIs DEF CallOK, Inv, CallsOK
<1>4. CASE w = "self" /\ Starts /\ rows' = None /\ list' = <<>>
  <2>1. Starting
    BY <1>1, <1>4 DEF Starting
  <2>2. PortalInv' /\ run'.pc = "start"
    BY <2>1, StartKeeps DEF Inv
  <2>3. pending' = NoClick
    BY <1>1, <1>4 DEF Inv, CallsOK, ClicksOK
  <2>4. ClicksOK'
    BY <1>4, <2>2, <2>3, NothingIs DEF ClicksOK
  <2>5. CallsOK'
    BY <1>1, <1>3, <1>4, CallTurns DEF Inv
  <2> QED
    BY <2>2, <2>4, <2>5
<1>5. CASE UNCHANGED <<run, shown, rows, list>>
  <2>1. PortalInv'
    BY <1>1, <1>5, PortalStays DEF Inv
  <2>2. ClicksOK'
    BY <1>1, <1>5, ClicksStay DEF Inv
  <2>3. CallsOK'
    BY <1>1, <1>3, <1>5, CallTurns DEF Inv
  <2> QED
    BY <2>1, <2>2, <2>3
<1> QED
  BY <1>2, <1>4, <1>5

LEMMA FailsKeeps ==
    ASSUME Inv, NEW w \in Workers, Fails(w)
    PROVE  Inv'
<1>1. /\ call' = [call EXCEPT ![w] = NoCall]
      /\ UNCHANGED <<front, anonymous, serverVars, token, run, shown, since, rows, list, pending, meant>>
      /\ UNCHANGED <<status, caseStatus, decided, ready>>
  BY DEF Fails, portalVars
<1>2. PortalInv' /\ ClicksOK'
  BY <1>1, PortalStays, ClicksStay DEF Inv
<1>3. /\ CallOK(NoCall, ready') /\ \A x \in Workers : CallOK(call[x], ready')
      /\ NoCall.step # "decide"
  BY <1>1, NothingIs DEF CallOK, Inv, CallsOK
<1>4. CallsOK'
  BY <1>1, <1>3, CallTurns DEF Inv
<1>5. DecidedOK' /\ CasesOK'
  BY <1>1, DecidedStays, CasesStay DEF Inv
<1> QED
  BY <1>2, <1>4, <1>5 DEF Inv

\* A transition goes on to its next step.
LEMMA ContinuesKeeps ==
    ASSUME Inv, NEW w \in Workers, NEW d, Continues(w, d), call[w] # NoCall, CasesOK',
           CallOK(d, ready'), d.step # "decide", \A x \in Workers : CallOK(call[x], ready')
    PROVE  Inv'
<1>1. /\ call' = [call EXCEPT ![w] = d]
      /\ UNCHANGED <<front, anonymous, serverVars, token, run, shown, since, rows, list, pending, meant>>
      /\ UNCHANGED <<status, caseStatus, decided>>
  BY Zenon DEF Continues, portalVars
<1>2. w = "self" => run.pc = "idle"
  BY DEF Inv, CallsOK
<1>3. CallsOK'
  BY <1>1, <1>2, CallTurns DEF Inv
<1>4. PortalInv' /\ ClicksOK' /\ DecidedOK'
  BY <1>1, PortalStays, ClicksStay, DecidedStays DEF Inv
<1> QED
  BY <1>3, <1>4 DEF Inv

LEMMA AuthorizedIs ==
    ASSUME NEW c \in Transition, MayMove(c), NEW allowed
    PROVE  /\ Authorized(c) \in Transition /\ Authorized(c).step # "decide"
           /\ CallOK(Authorized(c), allowed)
<1>1. c.to \in Statuses /\ (c.to = "NOT_APPLICABLE" => c.case \in Synthetic)
  BY DEF MayMove, Transition
<1>2. /\ Authorized(c) \in Transition
      /\ Authorized(c).step = IF c.to = "COMPLETE" THEN "prior" ELSE "write"
      /\ Authorized(c).to = c.to /\ Authorized(c).case = c.case
  BY DEF Authorized, Transition
<1> QED
  BY <1>1, <1>2 DEF CallOK

LEMMA CheckAuthorityKeeps ==
    ASSUME Inv, CheckAuthority
    PROVE  Inv'
<1> DEFINE c == call["self"]
<1>1. /\ c # NoCall /\ c.step = "authority" /\ MayMove(c)
      /\ Continues("self", Authorized(c)) /\ ready' = ready
  BY DEF CheckAuthority
<1>2. "self" \in Workers
  BY DEF Workers
<1>3. c \in Transition
  BY <1>1, <1>2 DEF Inv, CallsOK, CallOK
<1>4. CallOK(Authorized(c), ready') /\ Authorized(c).step # "decide"
  BY <1>1, <1>3, AuthorizedIs
<1>5. CasesOK' /\ \A x \in Workers : CallOK(call[x], ready')
  BY <1>1, CasesStay DEF Inv, CallsOK, Continues
<1> QED
  BY <1>1, <1>2, <1>4, <1>5, ContinuesKeeps

LEMMA CheckPriorKeeps ==
    ASSUME Inv, NEW w \in Workers, CheckPrior(w)
    PROVE  Inv'
<1> DEFINE c == call[w]
           found == \A k \in Prior(c.key) : status[c.case][k] # "IN_PROGRESS"
           d == [c EXCEPT !.step = "evidence", !.settled = found]
<1>1. /\ c # NoCall /\ c.step = "prior" /\ PriorComplete(c.case, c.key)
      /\ Continues(w, d) /\ ready' = ready
  BY DEF CheckPrior
<1>2. found
  BY <1>1 DEF PriorComplete
<1>3. c \in Transition /\ c.to = "COMPLETE"
  BY <1>1 DEF Inv, CallsOK, CallOK
<1> HIDE DEF c
<1>4. d = [c EXCEPT !.step = "evidence", !.settled = TRUE]
  BY <1>2
<1> HIDE DEF d, found
<1>5. d \in Transition /\ d.step = "evidence" /\ d.settled /\ d.to = "COMPLETE"
  BY <1>3, <1>4 DEF Transition
<1>6. CallOK(d, ready') /\ d.step # "decide"
  BY <1>5 DEF CallOK
<1>7. CasesOK' /\ \A x \in Workers : CallOK(call[x], ready')
  BY <1>1, CasesStay DEF Inv, CallsOK, Continues
<1> QED
  BY <1>1, <1>6, <1>7, ContinuesKeeps DEF c

LEMMA CheckEvidenceKeeps ==
    ASSUME Inv, NEW w \in Workers, CheckEvidence(w)
    PROVE  Inv'
<1> DEFINE c == call[w]
           d == [c EXCEPT !.step = "write"]
<1>1. /\ c # NoCall /\ c.step = "evidence" /\ Evidence(c.case, c.key) /\ Continues(w, d)
      /\ ready' = IF c.settled /\ Proven(c.case, c.key)
                     THEN [ready EXCEPT ![c.case] = @ \cup {c.key}] ELSE ready
  BY Zenon DEF CheckEvidence
<1>2. c \in Transition /\ c.to = "COMPLETE" /\ c.settled
  BY <1>1 DEF Inv, CallsOK, CallOK
<1> HIDE DEF c
<1>3. d \in Transition /\ d.step = "write" /\ d.key = c.key /\ d.to = c.to /\ d.case = c.case
  BY <1>2 DEF Transition
<1> HIDE DEF d
<1>4. UNCHANGED <<status, caseStatus>>
  BY <1>1 DEF Continues
<1>5. /\ CasesOK' /\ \A x \in Workers : CallOK(call[x], ready')
      /\ c.key \in ready'[c.case]
  BY <1>1, <1>2, <1>4, EvidenceIs DEF Inv
<1>6. CallOK(d, ready') /\ d.step # "decide"
  BY <1>2, <1>3, <1>5 DEF CallOK
<1> QED
  BY <1>1, <1>5, <1>6, ContinuesKeeps DEF c

LEMMA WriteTransitionKeeps ==
    ASSUME Inv, NEW w \in Workers, WriteTransition(w)
    PROVE  Inv'
<1> DEFINE c == call[w]
           now == caseStatus'[c.case]
           written == [status[c.case] EXCEPT ![c.key] = c.to]
           out == c.case \in published
           row == Refreshed(written, now, out)
<1>1. /\ c # NoCall /\ c.step = "write" /\ Ends(w) /\ UNCHANGED <<decided, ready>>
      /\ caseStatus' = [caseStatus EXCEPT ![c.case] =
            IF c.to = "COMPLETE" /\ c.key = "CLOSEOUT" THEN "CLOSED"
            ELSE IF c.to = "COMPLETE" /\ c.key = "ARCHIVE" THEN "ARCHIVED"
            ELSE caseStatus[c.case]]
      /\ status' = [status EXCEPT ![c.case] = row]
  BY Zenon DEF WriteTransition
<1>2. /\ c \in Transition /\ (c.to = "COMPLETE" => c.key \in ready[c.case])
      /\ c.to = "NOT_APPLICABLE" => c.case \in Synthetic
  BY <1>1 DEF Inv, CallsOK, CallOK
<1>3. PortalInv' /\ ClicksOK' /\ CallsOK' /\ meant' = meant
  BY <1>1, EndsKeeps DEF Ends
<1> HIDE DEF c
<1>4. c.case \in Cases /\ c.key \in Checkpoints /\ c.to \in Statuses
  BY <1>2 DEF Transition
<1>5. /\ status \in [Cases -> Rows]
      /\ caseStatus \in [Cases -> {"OPEN", "CLOSED", "ARCHIVED"}]
      /\ \A d \in Cases : RowOK(status[d], caseStatus[d], ready[d], d \in Synthetic)
      /\ "ARCHIVE" \in ready[c.case] => "CLOSEOUT" \in ready[c.case]
  BY <1>4, RowsAre DEF Inv, CasesOK
<1>6. /\ written \in Rows
      /\ \A k \in Checkpoints : written[k] = IF k = c.key THEN c.to ELSE status[c.case][k]
  BY <1>4, <1>5 DEF Rows
<1>7. /\ caseStatus' \in [Cases -> {"OPEN", "CLOSED", "ARCHIVED"}]
      /\ now = IF c.to = "COMPLETE" /\ c.key = "CLOSEOUT" THEN "CLOSED"
               ELSE IF c.to = "COMPLETE" /\ c.key = "ARCHIVE" THEN "ARCHIVED"
               ELSE caseStatus[c.case]
      /\ \A d \in Cases : d # c.case => caseStatus'[d] = caseStatus[d]
  BY <1>1, <1>4, <1>5
<1> HIDE DEF written, now
<1>8. now \in {"OPEN", "CLOSED", "ARCHIVED"}
  BY <1>4, <1>7 DEF now
<1>. out \in BOOLEAN
  OBVIOUS
<1> HIDE DEF out
<1>9. /\ row \in Rows
      /\ row["CLOSEOUT"] = IF now # "OPEN" /\ written["CLOSEOUT"] = "IN_PROGRESS"
                             THEN "COMPLETE" ELSE written["CLOSEOUT"]
      /\ \A k \in Checkpoints : row[k] = "NOT_APPLICABLE" => written[k] = "NOT_APPLICABLE"
  BY <1>6, <1>8, RefreshedIs
<1> HIDE DEF row
<1>10. RowOK(row, now, ready[c.case], c.case \in Synthetic)
  <2>1. RowOK(status[c.case], caseStatus[c.case], ready[c.case], c.case \in Synthetic)
    BY <1>4, <1>5
  <2>2. /\ now \in {"CLOSED", "ARCHIVED"} => "CLOSEOUT" \in ready[c.case]
        /\ now = "ARCHIVED" => "ARCHIVE" \in ready[c.case]
    BY <1>2, <1>5, <1>7, <2>1 DEF RowOK
  <2>3. \A k \in Checkpoints : row[k] = "NOT_APPLICABLE" => c.case \in Synthetic
    BY <1>2, <1>6, <1>9, <2>1 DEF RowOK
  <2>4. "CLOSEOUT" \in Checkpoints
    BY DEF Checkpoints
  <2>5. row["CLOSEOUT"] = "COMPLETE" => now # "OPEN"
    BY <1>6, <1>7, <1>9, <2>1, <2>4 DEF RowOK
  <2>6. row["CLOSEOUT"] = "IN_PROGRESS" => now = "OPEN"
    BY <1>9
  <2> QED
    BY <2>2, <2>3, <2>5, <2>6 DEF RowOK
<1>11. /\ status' \in [Cases -> Rows]
       /\ \A d \in Cases : status'[d] = IF d = c.case THEN row ELSE status[d]
  BY <1>1, <1>4, <1>5, <1>9
<1>12. ASSUME NEW d \in Cases
       PROVE  RowOK(status'[d], caseStatus'[d], ready'[d], d \in Synthetic)
  <2>1. CASE d = c.case
    BY <1>1, <1>10, <1>11, <2>1 DEF now
  <2>2. CASE d # c.case
    BY <1>1, <1>5, <1>7, <1>11, <2>2
  <2> QED
    BY <2>1, <2>2
<1>13. ClosedWasComplete'
  BY <1>12 DEF ClosedWasComplete, RowOK
<1>14. CasesOK'
  BY <1>1, <1>7, <1>11, <1>13 DEF Inv, CasesOK
<1>15. DecidedOK'
  BY <1>1, <1>3, DecidedStays DEF Inv
<1> QED
  BY <1>3, <1>14, <1>15 DEF Inv

LEMMA MakeRequestKeeps ==
    ASSUME Inv, MakeRequest
    PROVE  Inv'
<1>1. /\ call["self"] # NoCall /\ Ends("self") /\ "self" \in Workers
      /\ UNCHANGED <<status, caseStatus, decided, ready>> /\ meant' = meant
  BY DEF MakeRequest, Workers, Ends
<1>2. PortalInv' /\ ClicksOK' /\ CallsOK'
  BY <1>1, EndsKeeps
<1>3. DecidedOK' /\ CasesOK'
  BY <1>1, DecidedStays, CasesStay DEF Inv
<1> QED
  BY <1>2, <1>3 DEF Inv

LEMMA DecideKeeps ==
    ASSUME Inv, Decide
    PROVE  Inv'
<1> DEFINE c == call["self"]
           taken == [user |-> run.user, decision |-> c.decision, confirmed |-> c.confirmed]
<1>1. /\ c # NoCall /\ c.step = "decide" /\ Ends("self") /\ "self" \in Workers
      /\ UNCHANGED <<status, caseStatus, ready>> /\ meant' = meant
      /\ decided' = [decided EXCEPT ![c.key] = taken]
  BY DEF Decide, Decided, Workers, Ends
<1>2. PortalInv' /\ ClicksOK' /\ CallsOK'
  BY <1>1, EndsKeeps
<1>3. MeantBy(run.user, c, meant)
  BY <1>1 DEF Inv, CallsOK
<1>4. /\ taken.user = run.user /\ taken.decision = c.decision /\ taken.confirmed = c.confirmed
  OBVIOUS
<1> HIDE DEF c, taken
<1>5. decided = [a \in Approvals |-> decided[a]] /\ DecisionIsMeant
  BY DEF Inv, DecidedOK
<1>6. /\ decided' = [a \in Approvals |-> decided'[a]]
      /\ \A a \in Approvals : decided'[a] = IF a = c.key THEN taken ELSE decided[a]
  BY <1>1, <1>5
<1>7. DecisionIsMeant'
  <2>1. ASSUME NEW a \in Approvals, decided'[a] # None, decided'[a].user # None
        PROVE  /\ [user |-> decided'[a].user, key |-> a, decision |-> decided'[a].decision,
                   confirmed |-> decided'[a].confirmed] \in meant'
               /\ a \in Protected /\ decided'[a].decision = "APPROVE" => decided'[a].confirmed
    <3>1. CASE a = c.key
      <4>1. decided'[a] = taken
        BY <1>6, <3>1
      <4> QED
        BY <1>1, <1>3, <1>4, <3>1, <4>1 DEF MeantBy
    <3>2. CASE a # c.key
      <4>1. decided'[a] = decided[a]
        BY <1>6, <3>2
      <4> QED
        BY <1>1, <1>5, <2>1, <4>1 DEF DecisionIsMeant
    <3> QED
      BY <3>1, <3>2
  <2> QED
    BY <2>1 DEF DecisionIsMeant
<1>8. CasesOK'
  BY <1>1, CasesStay DEF Inv
<1> QED
  BY <1>2, <1>6, <1>7, <1>8 DEF Inv, DecidedOK

LEMMA CallStepsKeep ==
    ASSUME Inv, CallSteps
    PROVE  Inv'
BY FailsKeeps, CheckAuthorityKeeps, CheckPriorKeeps, CheckEvidenceKeeps, MakeRequestKeeps,
   DecideKeeps, WriteTransitionKeeps
   DEF CallSteps

\* Other staff change nothing of this session.
LEMMA ElsewhereIs ==
    ASSUME Inv, Elsewhere
    PROVE  /\ PortalInv' /\ ClicksOK' /\ UNCHANGED <<run, status, caseStatus, meant>>
<1>1. /\ UNCHANGED <<front, anonymous, serverVars, token, run, shown, since>>
      /\ UNCHANGED <<status, caseStatus, rows, list, pending, meant>>
  BY DEF Elsewhere
<1> QED
  BY <1>1, PortalStays, ClicksStay DEF Inv

LEMMA OthersKeep ==
    ASSUME Inv, Others
    PROVE  Inv'
<1>1. ASSUME NEW user \in Users, NEW case \in Cases, NEW key \in Checkpoints,
             NEW to \in Statuses, OthersMove(user, case, key, to)
      PROVE  Inv'
  <2> DEFINE c == [step |-> "authority", user |-> user, case |-> case, key |-> key, to |-> to,
                   settled |-> FALSE]
  <2>1. /\ MayMove(c) /\ call' = [call EXCEPT !["other"] = Authorized(c)]
        /\ Elsewhere /\ UNCHANGED <<decided, ready>>
    BY <1>1 DEF OthersMove
  <2>2. c \in Transition
    BY DEF Transition
  <2> HIDE DEF c
  <2>3. CallOK(Authorized(c), ready') /\ Authorized(c).step # "decide"
    BY <2>1, <2>2, AuthorizedIs
  <2>4. /\ PortalInv' /\ ClicksOK' /\ UNCHANGED <<run, status, caseStatus, meant>>
    BY <2>1, ElsewhereIs
  <2>5. CasesOK' /\ \A x \in Workers : CallOK(call[x], ready')
    BY <2>1, <2>4, CasesStay DEF Inv, CallsOK
  <2>6. "other" \in Workers /\ "other" # "self"
    BY DEF Workers
  <2>7. CallsOK'
    BY <2>1, <2>3, <2>4, <2>5, <2>6, CallTurns DEF Inv
  <2>8. DecidedOK'
    BY <2>1, <2>4, DecidedStays DEF Inv
  <2> QED
    BY <2>4, <2>5, <2>7, <2>8 DEF Inv
<1>2. ASSUME Elsewhere, UNCHANGED <<call, ready>>
      PROVE  PortalInv' /\ ClicksOK' /\ CasesOK' /\ CallsOK' /\ meant' = meant
  <2>1. /\ PortalInv' /\ ClicksOK' /\ UNCHANGED <<run, status, caseStatus, meant>>
    BY <1>2, ElsewhereIs
  <2>2. CasesOK'
    BY <1>2, <2>1, CasesStay DEF Inv
  <2>3. CallsOK'
    BY <1>2, <2>1, CallsStay DEF Inv, CallsOK
  <2> QED
    BY <2>1, <2>2, <2>3
<1>3. ASSUME NEW case \in Cases, RecordsChange(case)
      PROVE  Inv'
  <2>1. Elsewhere /\ UNCHANGED <<decided, call, ready>>
    BY <1>3 DEF RecordsChange
  <2> QED
    BY <1>2, <2>1, DecidedStays DEF Inv
<1>4. ASSUME NEW a \in Approvals, NEW decision \in Decisions, OthersDecide(a, decision)
      PROVE  Inv'
  <2> DEFINE taken == [user |-> None, decision |-> decision, confirmed |-> TRUE]
  <2>1. /\ Elsewhere /\ UNCHANGED <<call, ready>> /\ decided' = [decided EXCEPT ![a] = taken]
    BY <1>4 DEF OthersDecide, Decided
  <2>2. taken.user = None
    OBVIOUS
  <2> HIDE DEF taken
  <2>3. decided = [b \in Approvals |-> decided[b]] /\ DecisionIsMeant
    BY DEF Inv, DecidedOK
  <2>4. /\ decided' = [b \in Approvals |-> decided'[b]]
        /\ \A b \in Approvals : decided'[b] = IF b = a THEN taken ELSE decided[b]
    BY <2>1, <2>3
  <2>5. meant' = meant
    BY <1>2, <2>1
  <2>6. DecisionIsMeant'
    <3>1. ASSUME NEW b \in Approvals, decided'[b] # None, decided'[b].user # None
          PROVE  /\ b # a /\ decided'[b] = decided[b]
      BY <2>2, <2>4, <3>1
    <3> QED
      BY <2>3, <2>5, <3>1 DEF DecisionIsMeant
  <2> QED
    BY <1>2, <2>1, <2>4, <2>6 DEF Inv, DecidedOK
<1>5. ASSUME NEW a, NEW place, Listed(a, place)
      PROVE  Inv'
  <2>1. Elsewhere /\ UNCHANGED <<decided, call, ready>>
    BY <1>5 DEF Listed
  <2> QED
    BY <1>2, <2>1, DecidedStays DEF Inv
<1> QED
  BY <1>1, <1>3, <1>4, <1>5 DEF Others

LEMMA AdministrationKeeps ==
    ASSUME Inv, Administration
    PROVE  Inv'
<1>1. /\ PortalInv' /\ UNCHANGED <<front, anonymous, token, memory, run, shown>>
      /\ UNCHANGED deskVars
  BY EnvironmentKeeps DEF Administration, Inv
<1>2. UNCHANGED <<status, caseStatus, decided, rows, list, pending, call, meant, ready>>
  BY <1>1 DEF deskVars
<1>3. ClicksOK' /\ CasesOK' /\ DecidedOK'
  BY <1>1, <1>2, ClicksStay, CasesStay, DecidedStays DEF Inv
<1>4. CallsOK'
  BY <1>1, <1>2, CallsStay DEF Inv, CallsOK
<1> QED
  BY <1>1, <1>3, <1>4 DEF Inv

LEMMA InitHolds == Init => Inv
<1> SUFFICES ASSUME Init PROVE Inv
  OBVIOUS
<1>1. PortalInv
  BY PortalInitHolds DEF Init
<1>2. /\ rows = None /\ list = <<>> /\ pending = NoClick /\ run.pc = "start"
      /\ call = [w \in Workers |-> NoCall] /\ ready = [c \in Cases |-> {}]
      /\ caseStatus = [c \in Cases |-> "OPEN"] /\ decided = [a \in Approvals |-> None]
  BY DEF Init, DeskInit, PortalInit, Idle
<1>3. ClicksOK
  BY <1>2, NothingIs DEF ClicksOK
<1>4. CallsOK
  BY <1>2, NothingIs DEF CallsOK, CallOK, Workers
<1>5. DecidedOK
  BY <1>2 DEF DecidedOK, DecisionIsMeant
<1>6. CasesOK
  <2>1. \A c \in Cases : /\ status[c] \in Rows /\ status[c]["CLOSEOUT"] = "IN_PROGRESS"
                         /\ \A k \in Checkpoints : status[c][k] # "NOT_APPLICABLE"
    BY DEF Init, DeskInit, Rows, Checkpoints, Statuses
  <2>2. status \in [Cases -> Rows]
    BY <2>1 DEF Init, DeskInit
  <2> QED
    BY <1>2, <2>1, <2>2 DEF CasesOK, ClosedWasComplete
<1> QED
  BY <1>1, <1>3, <1>4, <1>5, <1>6 DEF Inv

LEMMA StepKeeps == Inv /\ [Next]_vars => Inv'
<1> SUFFICES ASSUME Inv, [Next]_vars PROVE Inv'
  OBVIOUS
<1>1. CASE UNCHANGED vars
  <2>1. /\ UNCHANGED <<front, anonymous, serverVars, token, run, shown, since>>
        /\ UNCHANGED <<status, caseStatus, decided, rows, list, pending, call, meant, ready>>
    BY <1>1 DEF vars, portalVars, deskVars
  <2>2. PortalInv' /\ ClicksOK' /\ CasesOK' /\ DecidedOK'
    BY <2>1, PortalStays, ClicksStay, CasesStay, DecidedStays DEF Inv
  <2>3. CallsOK'
    BY <2>1, CallsStay DEF Inv, CallsOK
  <2> QED
    BY <2>2, <2>3 DEF Inv
<1> QED
  BY <1>1, DeskShowsKeeps, DeskRunsKeeps, ClickElsewhereKeeps, DeskClicksKeeps, CallStepsKeep,
     OthersKeep, AdministrationKeeps DEF Next

LEMMA InvHolds == Spec => []Inv
<1> QED
  BY InitHolds, StepKeeps, PTL DEF Spec

-----------------------------------------------------------------------------
(* Theorems. *)

\* However role and grants change under a run that reads them one after the
\* other, and whatever earlier runs and users left in the session: a run renders
\* nothing that its own user has not been allowed since it began.
THEOREM ShownAuthorized == Spec => []ShownIsAuthorized
<1>1. Inv => ShownIsAuthorized
  BY DEF Inv, PortalInv
<1> QED
  BY <1>1, InvHolds, PTL

\* However the queue moves between a click and the run that acts on it: a
\* decision recorded for a user of this session is one he clicked.
THEOREM DecisionsMeant == Spec => []DecisionIsMeant
<1>1. Inv => DecisionIsMeant
  BY DEF Inv, DecidedOK
<1> QED
  BY <1>1, InvHolds, PTL

\* Although what comes before, the evidence and the row are read one after the
\* other, and whatever is opened or waived meanwhile: a case is closed only by a
\* transition that found all before its closing settled and then the evidence,
\* and its closing is not shown open again.
THEOREM ClosedComplete == Spec => []ClosedWasComplete
<1>1. Inv => ClosedWasComplete
  BY DEF Inv, CasesOK
<1> QED
  BY <1>1, InvHolds, PTL

-----------------------------------------------------------------------------
(* Types.  The invariant above says what relates the parts of the state; what *)
(* follows says what each of them is.                                         *)

LEMMA MemoryIs ==
    ASSUME NEW m \in Memory
    PROVE  /\ m = [page |-> m.page, nav |-> m.nav, asked |-> m.asked, case |-> m.case,
                   caseAsked |-> m.caseAsked, preview |-> m.preview, persona |-> m.persona]
           /\ m.page \in [Everyone -> AllPages \cup {None}]
           /\ m.nav \in [Everyone \X Experiences -> AllPages \cup {None}]
           /\ m.asked \in [Everyone \cup {"anyone"} -> AllPages \cup {None}]
           /\ m.case \in [Everyone -> Workspaces \cup {None}]
           /\ m.caseAsked \in [Everyone -> Workspaces \cup {None}]
           /\ m.preview \in [Everyone -> Previews]
           /\ m.persona \in {"owner", "admin", "analyst", "client"}
BY DEF Memory

\* What a click or a page leaves in the session.
LEMMA MemoryTakes ==
    ASSUME NEW m \in Memory, NEW u
    PROVE  /\ \A page \in AllPages \cup {None} :
                 /\ [m EXCEPT !.page[u] = page] \in Memory
                 /\ [m EXCEPT !.nav[u] = page] \in Memory
                 /\ [m EXCEPT !.asked[u] = page] \in Memory
           /\ \A case \in Workspaces \cup {None} :
                 /\ [m EXCEPT !.case[u] = case] \in Memory
                 /\ [m EXCEPT !.caseAsked[u] = case] \in Memory
           /\ \A preview \in Previews : [m EXCEPT !.preview[u] = preview] \in Memory
           /\ \A role \in {"owner", "admin", "analyst", "client"} :
                 [m EXCEPT !.persona = role] \in Memory
<1>1. ASSUME NEW page \in AllPages \cup {None}
      PROVE  /\ [m EXCEPT !.page[u] = page] \in Memory
             /\ [m EXCEPT !.nav[u] = page] \in Memory
             /\ [m EXCEPT !.asked[u] = page] \in Memory
  <2>1. [m EXCEPT !.page[u] = page] \in Memory
    BY DEF Memory
  <2>2. [m EXCEPT !.nav[u] = page] \in Memory
    BY DEF Memory
  <2>3. [m EXCEPT !.asked[u] = page] \in Memory
    BY DEF Memory
  <2> QED
    BY <2>1, <2>2, <2>3
<1>2. ASSUME NEW case \in Workspaces \cup {None}
      PROVE  /\ [m EXCEPT !.case[u] = case] \in Memory
             /\ [m EXCEPT !.caseAsked[u] = case] \in Memory
  <2>1. [m EXCEPT !.case[u] = case] \in Memory
    BY DEF Memory
  <2>2. [m EXCEPT !.caseAsked[u] = case] \in Memory
    BY DEF Memory
  <2> QED
    BY <2>1, <2>2
<1>3. ASSUME NEW preview \in Previews
      PROVE  [m EXCEPT !.preview[u] = preview] \in Memory
  BY DEF Memory
<1>4. ASSUME NEW role \in {"owner", "admin", "analyst", "client"}
      PROVE  [m EXCEPT !.persona = role] \in Memory
  BY DEF Memory
<1> QED
  BY <1>1, <1>2, <1>3, <1>4

LEMMA UnusedIs ==
    /\ Unused \in Memory
    /\ \A m \in Memory : [m EXCEPT !.nav = Unused.nav, !.case = Unused.case,
                                   !.preview = Unused.preview] \in Memory
<1>1. Unused \in Memory
  <2>1. Unused.persona \in {"owner", "admin", "analyst", "client"}
    BY DEF Unused
  <2> QED
    BY <2>1 DEF Unused, Memory, Previews
<1>2. ASSUME NEW m \in Memory
      PROVE  [m EXCEPT !.nav = Unused.nav, !.case = Unused.case, !.preview = Unused.preview] \in Memory
  BY <1>1 DEF Memory
<1> QED
  BY <1>1, <1>2

LEMMA BlankHasType == Blank \in Shown /\ [Idle EXCEPT !.pc = "start"] \in Run
BY DEF Blank, Shown, Idle, Run, Previews

LEMMA PagesAre ==
    ASSUME NEW role
    PROVE  Pages(role) \subseteq AllPages /\ Experience(role) \in Experiences
<1>1. Pages(role) \subseteq ClientPages \cup AdminPages \cup EmployeePages \cup ReferencePages
  BY DEF Pages, PortalPages, VisiblePages
<1>2. EmployeePages \subseteq AdminPages
  BY DEF EmployeePages
<1>3. Pages(role) \subseteq AllPages
  BY <1>1, <1>2 DEF AllPages
<1>4. Experience(role) \in Experiences
  BY DEF Experience, Experiences
<1> QED
  BY <1>3, <1>4

\* A step that changes the counters only.
Counts ==
    /\ changes' \in 0 .. MaxChanges /\ clicks' \in 0 .. MaxClicks
ServerTypeOK ==
    /\ profile \in [Users -> Profile]
    /\ member \in [Users -> SUBSET Cases] /\ assigned \in [Users -> SUBSET Cases]
SinceTypeOK == since \in [roles : SUBSET Roles, cases : SUBSET Workspaces]

LEMMA PortalTypeFrom ==
    ASSUME PortalTypeOK, UNCHANGED <<front, anonymous>>, ServerTypeOK',
           token' \in Users \cup {None}, memory' \in Memory, run' \in Run, shown' \in Shown,
           SinceTypeOK', Counts
    PROVE  PortalTypeOK'
BY DEF PortalTypeOK, ServerTypeOK, SinceTypeOK, Counts

\* A step of the run changes neither the tables nor the counters.
RunOnly == UNCHANGED <<front, anonymous, serverVars, changes, clicks>>
LEMMA RunOnlyTypes ==
    ASSUME PortalTypeOK, RunOnly, token' \in Users \cup {None}, memory' \in Memory,
           run' \in Run, shown' \in Shown, SinceTypeOK'
    PROVE  PortalTypeOK'
<1>1. ServerTypeOK' /\ Counts
  BY DEF PortalTypeOK, ServerTypeOK, RunOnly, serverVars, Counts
<1> QED
  BY <1>1, PortalTypeFrom DEF RunOnly

LEMMA RunIs ==
    ASSUME PortalTypeOK
    PROVE  /\ run = [pc |-> run.pc, user |-> run.user, role |-> run.role, cases |-> run.cases]
           /\ run.user \in Everyone \cup {None} /\ run.role \in Roles \cup {None}
           /\ run.cases \subseteq Workspaces
           /\ run.pc \in {"idle", "start", "profile", "members", "assignments", "page"}
BY DEF PortalTypeOK, Run

\* A run that stops without a page, having dropped what its widgets held or not.
LEMMA StopTypes ==
    ASSUME PortalTypeOK, NEW kind \in {"signin", "denied", "error", "none"}, Stops(kind), Drops,
           RunOnly, since' = since, token' = token \/ token' = None
    PROVE  PortalTypeOK'
<1>1. run' \in Run
  BY RunIs DEF Stops, Run
<1>2. shown' \in Shown
  BY BlankHasType DEF Stops, Shown
<1>3. memory' \in Memory
  BY UnusedIs DEF Drops, Dropped, PortalTypeOK
<1>4. token' \in Users \cup {None} /\ SinceTypeOK'
  BY DEF PortalTypeOK, SinceTypeOK
<1> QED
  BY <1>1, <1>2, <1>3, <1>4, RunOnlyTypes

\* The lookups of a run, which only it learns from.
LEMMA ReadTypes ==
    ASSUME PortalTypeOK, RunOnly, UNCHANGED <<token, memory, shown>>, run' \in Run, SinceTypeOK'
    PROVE  PortalTypeOK'
<1>1. token' \in Users \cup {None} /\ memory' \in Memory /\ shown' \in Shown
  BY DEF PortalTypeOK
<1> QED
  BY <1>1, RunOnlyTypes

LEMMA RunStepTypes ==
    ASSUME PortalTypeOK, PortalInv, RunStep
    PROVE  PortalTypeOK'
<1>1. CASE BeginDemo
  <2>1. memory.persona \in Roles
    BY MemoryIs DEF PortalTypeOK, Roles
  <2>2. DemoCase \in Workspaces
    BY PortalAssumption DEF DemoCase, Workspaces
  <2>3. run' \in Run
    BY <1>1, <2>1, <2>2 DEF BeginDemo, Run, Everyone
  <2>4. SinceTypeOK'
    BY <1>1, <2>1, <2>2 DEF BeginDemo, SinceTypeOK
  <2> QED
    BY <1>1, <2>3, <2>4, ReadTypes DEF BeginDemo, RunOnly
<1>2. CASE Begin
  <2>1. token \in Users
    BY <1>2 DEF Begin, PortalTypeOK
  <2>2. RolesOf(token) \subseteq Roles /\ Granted(token) \subseteq Workspaces
    BY <2>1 DEF RolesOf, Granted, PortalTypeOK, Profile, Workspaces
  <2>3. run' \in Run
    BY <1>2, <2>1, RunIs DEF Begin, Run, Everyone
  <2>4. SinceTypeOK'
    BY <1>2, <2>2 DEF Begin, SinceTypeOK
  <2> QED
    BY <1>2, <2>3, <2>4, ReadTypes DEF Begin, RunOnly
<1>3. ASSUME run.pc \in {"profile", "members", "assignments"}
      PROVE  run.user \in Users
  BY <1>3 DEF PortalInv, RunOK, Reading
<1>4. CASE ReadProfile
  <2>1. run.user \in Users
    BY <1>3, <1>4 DEF ReadProfile
  <2>2. profile[run.user].role \in Roles
    BY <2>1 DEF PortalTypeOK, Profile
  <2>3. run' \in Run
    BY <1>4, <2>2, RunIs DEF ReadProfile, Run
  <2>4. SinceTypeOK'
    BY <1>4 DEF ReadProfile, SinceTypeOK, PortalTypeOK
  <2> QED
    BY <1>4, <2>3, <2>4, ReadTypes DEF ReadProfile, RunOnly
<1>5. CASE ReadMemberships
  <2>1. run.user \in Users
    BY <1>3, <1>5 DEF ReadMemberships
  <2>2. member[run.user] \subseteq Workspaces
    BY <2>1 DEF PortalTypeOK, Workspaces
  <2>3. run' \in Run
    BY <1>5, <2>2, RunIs DEF ReadMemberships, Run
  <2>4. SinceTypeOK'
    BY <1>5 DEF ReadMemberships, SinceTypeOK, PortalTypeOK
  <2> QED
    BY <1>5, <2>3, <2>4, ReadTypes DEF ReadMemberships, RunOnly
<1>6. CASE ReadAssignments
  <2>1. run.user \in Users
    BY <1>3, <1>6 DEF ReadAssignments
  <2>2. assigned[run.user] \subseteq Workspaces
    BY <2>1 DEF PortalTypeOK, Workspaces
  <2>3. OwnWorkspace(run.role, run.cases \cup assigned[run.user]) \subseteq Workspaces
    BY <2>2, RunIs DEF OwnWorkspace, Workspaces
  <2>4. run' \in Run
    BY <1>6, <2>3, RunIs DEF ReadAssignments, Run
  <2>5. SinceTypeOK'
    BY <1>6 DEF ReadAssignments, SinceTypeOK, PortalTypeOK
  <2> QED
    BY <1>6, <2>4, <2>5, ReadTypes DEF ReadAssignments, RunOnly
<1>7. CASE BeginSignedOut
  BY <1>7, StopTypes DEF BeginSignedOut, RunOnly
<1>8. CASE RefreshFails
  BY <1>8, StopTypes DEF RefreshFails, RunOnly
<1>9. CASE Refused
  BY <1>9, StopTypes DEF Refused, SignedOut, RunOnly
<1>10. CASE WithoutCase
  BY <1>10, StopTypes DEF WithoutCase, RunOnly
<1> QED
  BY <1>1, <1>2, <1>4, <1>5, <1>6, <1>7, <1>8, <1>9, <1>10 DEF RunStep

\* A run that shows something has a user, and selects one of his cases.
LEMMA ShowTypes ==
    ASSUME PortalTypeOK, PortalInv, run.pc = "page", run.cases # {},
           NEW kind \in {"page", "refused", "locked"}, NEW page \in AllPages \cup {None},
           Renders(kind, page), memory' \in Memory
    PROVE  PortalTypeOK'
<1>1. SelectedCase \in Workspaces
  BY SelectedIs, RunIs
<1>2. ~anonymous => run.user \in Everyone
  BY DEF PortalInv, RunOK, Reading, Everyone
<1>3. (IF anonymous THEN "Owner" ELSE memory.preview[run.user]) \in Previews
  BY <1>2, MemoryIs DEF PortalTypeOK, Previews
<1>4. shown' \in Shown
  BY <1>1, <1>3, RunIs DEF Renders, Shown
<1>5. run' \in Run
  BY RunIs DEF Renders, Run
<1>6. token' \in Users \cup {None} /\ SinceTypeOK'
  BY DEF Renders, PortalTypeOK, SinceTypeOK
<1> QED
  BY <1>4, <1>5, <1>6, RunOnlyTypes DEF Renders, RunOnly

LEMMA ShowsTypes ==
    ASSUME PortalTypeOK, PortalInv, Shows
    PROVE  PortalTypeOK'
<1>1. memory \in Memory /\ run.pc = "page" /\ run.cases # {}
  BY DEF PortalTypeOK, Shows, ShowLocked, ShowOwner, ShowPage
<1>2. CaseSelected \in Memory
  <2>1. SelectedCase \in Workspaces
    BY <1>1, SelectedIs, RunIs
  <2>2. [memory EXCEPT !.caseAsked[run.user] = None] \in Memory
    BY <1>1, MemoryTakes
  <2> QED
    BY <2>1, <2>2, MemoryTakes DEF CaseSelected
<1>3. CASE ShowLocked
  BY <1>1, <1>2, <1>3, ShowTypes DEF ShowLocked
<1>4. CASE ShowOwner
  <2> DEFINE asked == memory.page[run.user]
  <2>1. PICK default \in OwnerDefaults :
          /\ memory' = [CaseSelected EXCEPT
                !.page[run.user] = IF asked \in OwnerLabels \cup {None} THEN asked ELSE default]
          /\ Renders("page", IF asked \in OwnerLabels THEN asked ELSE default)
    BY <1>4 DEF ShowOwner
  <2>2. OwnerLabels \subseteq AllPages /\ default \in OwnerLabels
    BY DEF OwnerDefaults, OwnerLabels, AllPages
  <2>3. (IF asked \in OwnerLabels \cup {None} THEN asked ELSE default) \in AllPages \cup {None}
    BY <2>2
  <2>4. (IF asked \in OwnerLabels THEN asked ELSE default) \in AllPages \cup {None}
    BY <2>2
  <2> HIDE DEF asked
  <2>5. memory' \in Memory
    BY <1>2, <2>1, <2>3, MemoryTakes
  <2> QED
    BY <1>1, <2>1, <2>4, <2>5, ShowTypes
<1>5. CASE ShowPage
  <2>1. /\ memory' = [CaseSelected EXCEPT !.asked[Slot] = None,
                         !.nav[<<run.user, Experience(run.role)>>] = SelectedPage]
        /\ Renders(IF Permits(run.role, SelectedPage) THEN "page" ELSE "refused", SelectedPage)
    BY <1>5 DEF ShowPage
  <2>2. SelectedPage \in AllPages
    <3>1. "Dashboard" \in AllPages
      BY DEF AllPages, ClientPages
    <3> QED
      BY <3>1, PagesAre DEF SelectedPage
  <2>3. [CaseSelected EXCEPT !.asked[Slot] = None] \in Memory
    BY <1>2, MemoryTakes
  <2>4. memory' \in Memory
    BY <2>1, <2>2, <2>3, MemoryTakes
  <2>5. PICK kind \in {"page", "refused"} : Renders(kind, SelectedPage)
    BY <2>1
  <2> QED
    BY <1>1, <2>2, <2>4, <2>5, ShowTypes
<1> QED
  BY <1>3, <1>4, <1>5 DEF Shows

\* A click, whatever it leaves in the session.
LEMMA ClickTypes ==
    ASSUME PortalTypeOK, NEW m \in Memory, Click(m), token' \in Users \cup {None}
    PROVE  PortalTypeOK'
<1>1. ServerTypeOK' /\ SinceTypeOK'
  BY DEF Click, serverVars, PortalTypeOK, ServerTypeOK, SinceTypeOK
<1>2. Counts
  BY PortalAssumption DEF Click, PortalTypeOK, Counts
<1>3. memory' \in Memory /\ run' \in Run /\ shown' \in Shown
  BY BlankHasType DEF Click, Starts
<1> QED
  BY <1>1, <1>2, <1>3, PortalTypeFrom DEF Click

LEMMA CaseAskedStays ==
    ASSUME NEW m \in Memory, NEW u, NEW page
    PROVE  /\ [m EXCEPT !.page[u] = page].caseAsked = m.caseAsked
           /\ [m EXCEPT !.asked[u] = page].caseAsked = m.caseAsked
<1>1. [m EXCEPT !.page[u] = page].caseAsked = m.caseAsked
  BY MemoryIs
<1>2. [m EXCEPT !.asked[u] = page].caseAsked = m.caseAsked
  BY MemoryIs
<1> QED
  BY <1>1, <1>2

LEMMA OpenedTypes ==
    ASSUME PortalTypeOK, NEW page \in AllPages, NEW case \in Workspaces \cup {None},
           Opened(page, case)
    PROVE  PortalTypeOK'
<1>1. memory \in Memory /\ token' \in Users \cup {None}
  BY DEF PortalTypeOK, Opened
<1> DEFINE opened == [memory EXCEPT !.page[shown.user] = page]
           m == [opened EXCEPT !.caseAsked[shown.user] =
                    IF case = None THEN opened.caseAsked[shown.user] ELSE case]
<1>2. opened \in Memory /\ opened.caseAsked = memory.caseAsked
  BY <1>1, MemoryTakes, CaseAskedStays
<1>3. m \in Memory
  <2>1. CASE case = None
    <3>1. m = opened
      <4>1. opened.caseAsked = [opened.caseAsked EXCEPT ![shown.user] = opened.caseAsked[shown.user]]
        BY <1>2, MemoryIs
      <4>2. m = [opened EXCEPT !.caseAsked =
                    [opened.caseAsked EXCEPT ![shown.user] = opened.caseAsked[shown.user]]]
        BY <2>1
      <4>3. opened = [opened EXCEPT !.caseAsked = opened.caseAsked]
        BY <1>2, MemoryIs
      <4> HIDE DEF opened, m
      <4> QED
        BY <4>1, <4>2, <4>3
    <3> QED
      BY <1>2, <3>1
  <2>2. CASE case # None
    <3> HIDE DEF opened
    <3> QED
      BY <1>2, <2>2, MemoryTakes
  <2> QED
    BY <2>1, <2>2
<1>4. Click([memory EXCEPT !.page[shown.user] = page,
                 !.caseAsked[shown.user] = IF case = None THEN @ ELSE case])
  BY DEF Opened
<1>5. [memory EXCEPT !.page[shown.user] = page,
           !.caseAsked[shown.user] = IF case = None THEN @ ELSE case] = m
  BY <1>2
<1> HIDE DEF opened, m
<1>6. Click(m)
  BY <1>4, <1>5
<1> QED
  BY <1>1, <1>3, <1>6, ClickTypes

LEMMA UserStepTypes ==
    ASSUME PortalTypeOK, UserStep
    PROVE  PortalTypeOK'
<1>1. memory \in Memory /\ token \in Users \cup {None} /\ shown \in Shown
  BY DEF PortalTypeOK
<1>2. ASSUME NEW u \in Users, SignIn(u)
      PROVE  PortalTypeOK'
  BY <1>1, <1>2, ClickTypes DEF SignIn
<1>3. CASE Rerun \/ Reload \/ LogOut
  BY <1>1, <1>3, ClickTypes, UnusedIs DEF Rerun, Reload, LogOut, SignedOut
<1>4. ASSUME NEW page, Navigate(page)
      PROVE  PortalTypeOK'
  <2>1. page \in AllPages
    BY <1>4, PagesAre DEF Navigate
  <2>2. [memory EXCEPT !.nav[<<shown.user, Experience(shown.role)>>] = page] \in Memory
    BY <1>1, <2>1, MemoryTakes
  <2> QED
    BY <1>1, <1>4, <2>2, ClickTypes DEF Navigate
<1>5. ASSUME NEW page, AskProfile(page)
      PROVE  PortalTypeOK'
  <2>1. page \in AllPages
    BY <1>5 DEF AskProfile, ProfileTargets, AllPages, ClientPages, ReferencePages
  <2>2. [memory EXCEPT !.asked[shown.user] = page] \in Memory
    BY <1>1, <2>1, MemoryTakes
  <2> QED
    BY <1>1, <1>5, <2>2, ClickTypes DEF AskProfile
<1>6. ASSUME NEW page,
             Open(page) \/ OpenCard(page) \/ OpenFound(page) \/ OpenPrivate(page) \/ Footer(page)
      PROVE  PortalTypeOK'
  <2>1. shown.case \in Workspaces \cup {None}
    BY <1>1 DEF Shown
  <2>2. CASE Footer(page)
    <3>1. page \in AllPages
      BY <2>2 DEF Footer, Neighbours, CaseFlow, AllPages, AdminPages, ReferencePages
    <3> QED
      BY <2>1, <2>2, <3>1, OpenedTypes DEF Footer
  <2>3. CASE Open(page) \/ OpenCard(page) \/ OpenFound(page) \/ OpenPrivate(page)
    <3>1. page \in OwnerLabels \cup OwnerPrivatePages
      BY <2>3 DEF Open, OpenCard, OpenFound, OpenPrivate, OwnerLabels, CardPages, FoundPages
    <3>2. page \in AllPages
      BY <3>1 DEF AllPages
    <3>3. Opened(page, None)
      BY <2>3 DEF Open, OpenCard, OpenFound, OpenPrivate
    <3> QED
      BY <3>2, <3>3, OpenedTypes
  <2> QED
    BY <1>6, <2>2, <2>3
<1>7. ASSUME NEW page, NEW case \in Cases, OpenStage(page, case) \/ OpenClient(page, case)
      PROVE  PortalTypeOK'
  <2>1. page \in AllPages
    BY <1>7 DEF OpenStage, OpenClient, CaseFlow, ClientLinks, AllPages, OwnerLabels
  <2>2. case \in Workspaces \cup {None}
    BY DEF Workspaces
  <2>3. Opened(page, case) \/ Opened(page, None)
    BY <1>7 DEF OpenStage, OpenClient
  <2> QED
    BY <2>1, <2>2, <2>3, OpenedTypes
<1>8. ASSUME NEW page, NEW case \in Cases, AskAdmin(page, case)
      PROVE  PortalTypeOK'
  <2> DEFINE m == [memory EXCEPT !.asked["anyone"] = IF page \in AdminPages THEN page ELSE "Dashboard"]
             next == IF page = "DARI" THEN m.caseAsked[shown.user] ELSE case
             n == [m EXCEPT !.caseAsked[shown.user] = next]
  <2>1. (IF page \in AdminPages THEN page ELSE "Dashboard") \in AllPages
    BY DEF AllPages, ClientPages
  <2>2. m \in Memory /\ m.caseAsked = memory.caseAsked
    <3>1. PICK target \in AllPages :
            target = IF page \in AdminPages THEN page ELSE "Dashboard"
      BY <2>1
    <3>2. m = [memory EXCEPT !.asked["anyone"] = target]
      BY <3>1
    <3> HIDE DEF m
    <3> QED
      BY <1>1, <3>2, MemoryTakes, CaseAskedStays
  <2>3. case \in Workspaces
    BY DEF Workspaces
  <2>4. n \in Memory
    <3> HIDE DEF m
    <3>1. CASE shown.user \in Everyone
      <4>1. next \in Workspaces \cup {None}
        BY <2>2, <2>3, <3>1, MemoryIs
      <4> QED
        BY <2>2, <4>1, MemoryTakes
    <3>2. CASE shown.user \notin Everyone
      <4>1. [m.caseAsked EXCEPT ![shown.user] = next] = m.caseAsked
        BY <2>2, <3>2, MemoryIs
      <4>2. n = [m EXCEPT !.caseAsked = [m.caseAsked EXCEPT ![shown.user] = next]]
        OBVIOUS
      <4>3. m = [m EXCEPT !.caseAsked = m.caseAsked]
        BY <2>2, MemoryIs
      <4> HIDE DEF n
      <4> QED
        BY <2>2, <4>1, <4>2, <4>3
    <3> QED
      BY <3>1, <3>2
  <2>5. Click([memory EXCEPT
                   !.asked["anyone"] = IF page \in AdminPages THEN page ELSE "Dashboard",
                   !.caseAsked[shown.user] = IF page = "DARI" THEN @ ELSE case])
    BY <1>8 DEF AskAdmin
  <2>6. [memory EXCEPT
             !.asked["anyone"] = IF page \in AdminPages THEN page ELSE "Dashboard",
             !.caseAsked[shown.user] = IF page = "DARI" THEN @ ELSE case] = n
    BY <2>2
  <2> HIDE DEF n
  <2>7. Click(n)
    BY <2>5, <2>6
  <2> QED
    BY <1>1, <1>8, <2>4, <2>7, ClickTypes DEF AskAdmin
<1>9. ASSUME NEW preview \in Previews, ViewAs(preview)
      PROVE  PortalTypeOK'
  BY <1>1, <1>9, MemoryTakes, ClickTypes DEF ViewAs
<1>10. ASSUME NEW case \in Cases, SwitchCase(case)
       PROVE  PortalTypeOK'
  <2>1. [memory EXCEPT !.case[shown.user] = case] \in Memory
    BY <1>1, MemoryTakes DEF Workspaces
  <2> QED
    BY <1>1, <1>10, <2>1, ClickTypes DEF SwitchCase
<1>11. ASSUME NEW role \in {"owner", "admin", "analyst", "client"}, SwitchPersona(role)
       PROVE  PortalTypeOK'
  BY <1>1, <1>11, MemoryTakes, ClickTypes DEF SwitchPersona
<1> QED
  BY <1>2, <1>3, <1>4, <1>5, <1>6, <1>7, <1>8, <1>9, <1>10, <1>11 DEF UserStep

LEMMA EnvironmentTypes ==
    ASSUME PortalTypeOK, PortalInv, Environment, ~anonymous
    PROVE  PortalTypeOK'
<1>1. PICK u \in Users : Meanwhile(u)
  BY DEF Environment, ProfileChanges, GrantChanges
<1>2. ServerTypeOK'
  BY EnvironmentKeeps DEF PortalInv, DataOK, ServerTypeOK
<1>3. Counts
  BY <1>1, PortalAssumption DEF Meanwhile, PortalTypeOK, Counts
<1>4. SinceTypeOK'
  <2>1. profile'[u].role \in Roles /\ member'[u] \subseteq Workspaces /\ assigned'[u] \subseteq Workspaces
    BY <1>2 DEF ServerTypeOK, Profile, Workspaces
  <2> QED
    BY <1>1, <2>1 DEF Meanwhile, SinceTypeOK, PortalTypeOK
<1>5. /\ token' \in Users \cup {None} /\ memory' \in Memory /\ run' \in Run /\ shown' \in Shown
      /\ UNCHANGED <<front, anonymous>>
  BY <1>1 DEF Meanwhile, PortalTypeOK
<1> QED
  BY <1>2, <1>3, <1>4, <1>5, PortalTypeFrom

LEMMA PortalInitTypes == PortalInit => PortalTypeOK
<1> SUFFICES ASSUME PortalInit PROVE PortalTypeOK
  OBVIOUS
<1>1. ServerTypeOK
  BY PortalInitHolds DEF PortalInv, DataOK, ServerTypeOK
<1>2. memory \in Memory /\ run \in Run /\ shown \in Shown
  BY UnusedIs, BlankHasType DEF PortalInit
<1> QED
  BY <1>1, <1>2, PortalAssumption DEF PortalInit, PortalTypeOK, ServerTypeOK

-----------------------------------------------------------------------------
(* The queue of approvals. *)

LEMMA RemoveAtIs ==
    ASSUME NEW S, NEW s \in Seq(S), IsInjective(s), NEW i \in DOMAIN s
    PROVE  /\ RemoveAt(s, i) \in Seq(S) /\ IsInjective(RemoveAt(s, i))
           /\ ToSet(RemoveAt(s, i)) \subseteq ToSet(s) \ {s[i]}
<1> DEFINE before == SubSeq(s, 1, i - 1)
           after == SubSeq(s, i + 1, Len(s))
           t == before \o after
<1>1. i \in 1 .. Len(s) /\ Len(s) \in Nat
  OBVIOUS
<1>2. /\ before \in Seq(S) /\ Len(before) = i - 1
      /\ \A k \in 1 .. i - 1 : before[k] = s[k]
  BY <1>1
<1>3. /\ after \in Seq(S) /\ Len(after) = Len(s) - i
      /\ \A k \in 1 .. Len(s) - i : after[k] = s[i + k]
  BY <1>1
<1> HIDE DEF before, after
<1>4. /\ t \in Seq(S) /\ Len(t) = Len(s) - 1
      /\ \A k \in 1 .. Len(s) - 1 : t[k] = IF k < i THEN s[k] ELSE s[k + 1]
  <2>1. /\ t \in Seq(S) /\ Len(t) = Len(before) + Len(after)
        /\ \A k \in 1 .. Len(before) + Len(after) :
              t[k] = IF k <= Len(before) THEN before[k] ELSE after[k - Len(before)]
    BY <1>2, <1>3, ConcatProperties
  <2> HIDE DEF t
  <2>2. Len(before) + Len(after) = Len(s) - 1
    BY <1>1, <1>2, <1>3
  <2>3. ASSUME NEW k \in 1 .. Len(s) - 1
        PROVE  t[k] = IF k < i THEN s[k] ELSE s[k + 1]
    <3>1. CASE k < i
      BY <1>1, <1>2, <2>1, <2>2, <3>1
    <3>2. CASE k >= i
      <4>1. t[k] = after[k - (i - 1)] /\ k - (i - 1) \in 1 .. Len(s) - i
        <5>1. /\ k \in 1 .. Len(before) + Len(after) /\ ~(k <= Len(before))
              /\ k - Len(before) = k - (i - 1) /\ k - (i - 1) \in 1 .. Len(s) - i
          BY <1>1, <1>2, <2>2, <3>2
        <5> QED
          BY <2>1, <5>1
      <4>2. after[k - (i - 1)] = s[i + (k - (i - 1))] /\ i + (k - (i - 1)) = k + 1
        BY <1>1, <1>3, <4>1
      <4> QED
        BY <1>1, <3>2, <4>1, <4>2
    <3> QED
      BY <1>1, <3>1, <3>2
  <2> QED
    BY <2>1, <2>2, <2>3
<1> HIDE DEF t
<1>5. DOMAIN t = 1 .. Len(s) - 1
  BY <1>4
<1>6. IsInjective(t)
  <2>1. ASSUME NEW k \in 1 .. Len(s) - 1, NEW l \in 1 .. Len(s) - 1, k < l
        PROVE  t[k] # t[l]
    <3>1. PICK x \in 1 .. Len(s), y \in 1 .. Len(s) : t[k] = s[x] /\ t[l] = s[y] /\ x < y
      <4>1. CASE l < i
        <5>1. t[k] = s[k] /\ t[l] = s[l] /\ k \in 1 .. Len(s) /\ l \in 1 .. Len(s)
          BY <1>1, <1>4, <2>1, <4>1
        <5> QED
          BY <2>1, <5>1
      <4>2. CASE l >= i /\ k < i
        <5>1. t[k] = s[k] /\ t[l] = s[l + 1]
          BY <1>1, <1>4, <4>2
        <5>2. k \in 1 .. Len(s) /\ l + 1 \in 1 .. Len(s) /\ k < l + 1
          BY <1>1, <2>1
        <5> QED
          BY <5>1, <5>2
      <4>3. CASE k >= i
        <5>1. t[k] = s[k + 1] /\ t[l] = s[l + 1]
          BY <1>1, <1>4, <2>1, <4>3
        <5>2. k + 1 \in 1 .. Len(s) /\ l + 1 \in 1 .. Len(s) /\ k + 1 < l + 1
          BY <1>1, <2>1
        <5> QED
          BY <5>1, <5>2
      <4> QED
        BY <1>1, <4>1, <4>2, <4>3
    <3> QED
      BY <1>1, <3>1 DEF IsInjective
  <2> QED
    BY <1>1, <1>5, <2>1 DEF IsInjective
<1>7. ToSet(t) \subseteq ToSet(s) \ {s[i]}
  <2>1. ASSUME NEW k \in 1 .. Len(s) - 1
        PROVE  t[k] \in ToSet(s) /\ t[k] # s[i]
    BY <1>1, <1>4 DEF IsInjective, ToSet
  <2> QED
    BY <1>5, <2>1 DEF ToSet
<1> QED
  BY <1>4, <1>6, <1>7 DEF RemoveAt, t, before, after

LEMMA InsertAtIs ==
    ASSUME NEW S, NEW s \in Seq(S), IsInjective(s), NEW i \in 1 .. Len(s) + 1,
           NEW e \in S, e \notin ToSet(s)
    PROVE  /\ InsertAt(s, i, e) \in Seq(S) /\ IsInjective(InsertAt(s, i, e))
           /\ ToSet(InsertAt(s, i, e)) \subseteq ToSet(s) \cup {e}
<1> DEFINE before == SubSeq(s, 1, i - 1)
           after == SubSeq(s, i, Len(s))
           t == before \o <<e>> \o after
<1>1. Len(s) \in Nat
  OBVIOUS
<1>2. /\ before \in Seq(S) /\ Len(before) = i - 1
      /\ \A k \in 1 .. i - 1 : before[k] = s[k]
  BY <1>1
<1>3. /\ after \in Seq(S) /\ Len(after) = Len(s) + 1 - i
      /\ \A k \in 1 .. Len(s) + 1 - i : after[k] = s[i + k - 1]
  BY <1>1
<1> HIDE DEF before, after
<1>4. /\ t \in Seq(S) /\ Len(t) = Len(s) + 1
      /\ \A k \in 1 .. Len(s) + 1 :
            t[k] = IF k < i THEN s[k] ELSE IF k = i THEN e ELSE s[k - 1]
  <2> DEFINE upto == before \o <<e>>
  <2>1. /\ upto \in Seq(S) /\ Len(upto) = i
        /\ \A k \in 1 .. i : upto[k] = IF k < i THEN s[k] ELSE e
    BY <1>1, <1>2
  <2> HIDE DEF upto
  <2>2. /\ t \in Seq(S) /\ Len(t) = Len(upto) + Len(after)
        /\ \A k \in 1 .. Len(upto) + Len(after) :
              t[k] = IF k <= Len(upto) THEN upto[k] ELSE after[k - Len(upto)]
    <3>1. t = upto \o after
      BY DEF upto
    <3> HIDE DEF t
    <3> QED
      BY <1>3, <2>1, <3>1, ConcatProperties
  <2> HIDE DEF t
  <2>3. Len(upto) + Len(after) = Len(s) + 1
    BY <1>1, <1>3, <2>1
  <2>4. ASSUME NEW k \in 1 .. Len(s) + 1
        PROVE  t[k] = IF k < i THEN s[k] ELSE IF k = i THEN e ELSE s[k - 1]
    <3>1. CASE k <= i
      BY <1>1, <2>1, <2>2, <2>3, <3>1
    <3>2. CASE k > i
      <4>1. t[k] = after[k - i] /\ k - i \in 1 .. Len(s) + 1 - i
        BY <1>1, <2>1, <2>2, <2>3, <3>2
      <4>2. after[k - i] = s[i + (k - i) - 1] /\ i + (k - i) - 1 = k - 1
        BY <1>1, <1>3, <4>1
      <4> QED
        BY <1>1, <3>2, <4>1, <4>2
    <3> QED
      BY <1>1, <3>1, <3>2
  <2> QED
    BY <2>2, <2>3, <2>4
<1> HIDE DEF t
<1>5. DOMAIN t = 1 .. Len(s) + 1
  BY <1>4
<1>6. \A k \in 1 .. Len(s) : s[k] # e
  BY DEF ToSet
<1>7. IsInjective(t)
  <2>1. ASSUME NEW k \in 1 .. Len(s) + 1, NEW l \in 1 .. Len(s) + 1, k < l
        PROVE  t[k] # t[l]
    <3>1. CASE k = i \/ l = i
      <4>1. CASE k = i
        <5>1. t[k] = e /\ t[l] = s[l - 1] /\ l - 1 \in 1 .. Len(s)
          BY <1>1, <1>4, <2>1, <4>1
        <5> QED
          BY <1>6, <5>1
      <4>2. CASE l = i
        <5>1. t[l] = e /\ t[k] = s[k] /\ k \in 1 .. Len(s)
          BY <1>1, <1>4, <2>1, <4>2
        <5> QED
          BY <1>6, <5>1
      <4> QED
        BY <3>1, <4>1, <4>2
    <3>2. CASE k # i /\ l # i
      <4>1. PICK x \in 1 .. Len(s), y \in 1 .. Len(s) : t[k] = s[x] /\ t[l] = s[y] /\ x < y
        <5>1. CASE l < i
          BY <1>1, <1>4, <2>1, <5>1
        <5>2. CASE l > i /\ k < i
          <6>1. t[k] = s[k] /\ t[l] = s[l - 1]
            BY <1>1, <1>4, <5>2
          <6>2. k \in 1 .. Len(s) /\ l - 1 \in 1 .. Len(s) /\ k < l - 1
            BY <1>1, <2>1, <5>2
          <6> QED
            BY <6>1, <6>2
        <5>3. CASE k > i
          <6>1. t[k] = s[k - 1] /\ t[l] = s[l - 1]
            BY <1>1, <1>4, <2>1, <5>3
          <6>2. k - 1 \in 1 .. Len(s) /\ l - 1 \in 1 .. Len(s) /\ k - 1 < l - 1
            BY <1>1, <2>1, <5>3
          <6> QED
            BY <6>1, <6>2
        <5> QED
          BY <1>1, <3>2, <5>1, <5>2, <5>3
      <4> QED
        BY <1>1, <4>1 DEF IsInjective
    <3> QED
      BY <3>1, <3>2
  <2> QED
    BY <1>1, <1>5, <2>1 DEF IsInjective
<1>8. ToSet(t) \subseteq ToSet(s) \cup {e}
  <2>1. ASSUME NEW k \in 1 .. Len(s) + 1
        PROVE  t[k] \in ToSet(s) \cup {e}
    BY <1>1, <1>4 DEF ToSet
  <2> QED
    BY <1>5, <2>1 DEF ToSet
<1> QED
  BY <1>4, <1>7, <1>8 DEF InsertAt, t, before, after

LEMMA SetToSeqIs ==
    ASSUME NEW S, IsFiniteSet(S)
    PROVE  SetToSeq(S) \in Seq(S) /\ IsInjective(SetToSeq(S))
<1>1. Cardinality(S) \in Nat /\ ExistsBijection(1 .. Cardinality(S), S)
  BY FS_CardinalityType
<1>2. PICK f \in [1 .. Cardinality(S) -> S] : IsInjective(f)
  BY <1>1 DEF ExistsBijection, Bijection, Injection, Surjection
<1>3. SetToSeq(S) \in [1 .. Cardinality(S) -> S] /\ IsInjective(SetToSeq(S))
  BY <1>2 DEF SetToSeq
<1> QED
  BY <1>1, <1>3

RecordsOK == requested \subseteq Cases /\ published \subseteq Cases
QueueOK ==
    /\ queue \in Seq(Approvals) /\ IsInjective(queue)
    /\ decided \in [Approvals -> Taken \cup {None}]
    /\ \A a \in ToSet(queue) : decided[a] = None
RenderedOK == rows \in Rows \cup {None} /\ (list = <<>> \/ list \in Seq(Approvals))
PendingOK == pending \in TransitionClick \cup RequestClick \cup DecisionClick \cup {NoClick}
MadeCalls == Transition \cup Request \cup Decision \cup {NoCall}
\* A decision is only sent for a user who is signed in.
CallTypeOK ==
    /\ call \in [Workers -> MadeCalls]
    /\ call["self"].step = "decide" => run.user \in Users
TypeInv == PortalTypeOK /\ RecordsOK /\ QueueOK /\ RenderedOK /\ PendingOK /\ CallTypeOK

LEMMA TypeInvIsEnough ==
    ASSUME Inv, TypeInv
    PROVE  DeskTypeOK
<1>1. ToSet(queue) \subseteq Approvals
  BY DEF TypeInv, QueueOK, ToSet
<1>2. ToSet(list) \subseteq Approvals
  BY DEF TypeInv, RenderedOK, ToSet
<1>3. /\ status \in [Cases -> Rows] /\ ready \in [Cases -> SUBSET Checkpoints]
      /\ caseStatus \in [Cases -> {"OPEN", "CLOSED", "ARCHIVED"}]
  BY DEF Inv, CasesOK
<1> QED
  BY <1>1, <1>2, <1>3
  DEF DeskTypeOK, TypeInv, RecordsOK, QueueOK, RenderedOK, PendingOK, CallTypeOK, MadeCalls

\* What takes a decision takes the approval out of the queue.
LEMMA DecidedTypes ==
    ASSUME QueueOK, NEW user \in Users \cup {None}, NEW key \in Approvals,
           NEW decision \in Decisions, NEW confirmed \in BOOLEAN,
           Decided(user, key, decision, confirmed)
    PROVE  QueueOK'
<1> DEFINE taken == [user |-> user, decision |-> decision, confirmed |-> confirmed]
<1>1. PICK place \in DOMAIN queue : queue[place] = key /\ queue' = RemoveAt(queue, place)
  BY DEF Decided
<1>2. /\ queue' \in Seq(Approvals) /\ IsInjective(queue')
      /\ ToSet(queue') \subseteq ToSet(queue) \ {key}
  BY <1>1, RemoveAtIs DEF QueueOK
<1>3. decided' = [decided EXCEPT ![key] = taken] /\ taken \in Taken
  BY DEF Decided, Taken
<1> HIDE DEF taken
<1>4. /\ decided' \in [Approvals -> Taken \cup {None}]
      /\ \A a \in Approvals : a # key => decided'[a] = decided[a]
  BY <1>3 DEF QueueOK
<1>5. ToSet(queue) \subseteq Approvals
  BY DEF QueueOK, ToSet
<1> QED
  BY <1>2, <1>4, <1>5 DEF QueueOK

LEMMA ListedTypes ==
    ASSUME QueueOK, NEW a \in Approvals, NEW place \in 1 .. Len(queue) + 1, Listed(a, place)
    PROVE  QueueOK'
<1>1. /\ a \notin ToSet(queue) /\ decided[a] = None
      /\ queue' = InsertAt(queue, place, a) /\ decided' = decided
  BY DEF Listed
<1>2. /\ queue' \in Seq(Approvals) /\ IsInjective(queue')
      /\ ToSet(queue') \subseteq ToSet(queue) \cup {a}
  BY <1>1, InsertAtIs DEF QueueOK
<1> QED
  BY <1>1, <1>2 DEF QueueOK

LEMMA QueueStays == QueueOK /\ UNCHANGED <<queue, decided>> => QueueOK'
BY DEF QueueOK
LEMMA RecordsStay == RecordsOK /\ UNCHANGED recordVars => RecordsOK'
BY DEF RecordsOK, recordVars

LEMMA CallTypeTurns ==
    ASSUME CallTypeOK, NEW w \in Workers, NEW c \in MadeCalls, call' = [call EXCEPT ![w] = c],
           run'.user = run.user \/ (w = "self" /\ c = NoCall),
           w = "self" => (c.step = "decide" => run'.user \in Users)
    PROVE  CallTypeOK'
<1>1. "self" \in Workers
  BY DEF Workers
<1>2. call' \in [Workers -> MadeCalls] /\ call'[w] = c /\ (w # "self" => call'["self"] = call["self"])
  BY <1>1 DEF CallTypeOK
<1> QED
  BY <1>2, NothingIs DEF CallTypeOK

\* A page's click becomes its call, or none.
LEMMA CallsHaveType ==
    ASSUME Inv, TypeInv, DeskShows, NEW c \in Calls(shown', rows', list')
    PROVE  c \in MadeCalls /\ (c.step = "decide" => run.user \in Users)
<1>1. pending \in TransitionClick \cup RequestClick \cup DecisionClick \cup {NoClick}
  BY DEF TypeInv, PendingOK
<1>2. CASE pending.kind = "transition"
  <2>1. pending \in TransitionClick
    BY <1>1, <1>2 DEF RequestClick, DecisionClick, NoClick
  <2>2. \/ c.step = "request"
        \/ c \in Transition /\ c.step = "authority"
        \/ c.step = "decide" /\ MeantBy(run.user, c, meant)
    BY CallsMade
  <2>3. c.step = "authority"
    BY <1>2 DEF Calls, TransitionCalls
  <2> QED
    BY <2>2, <2>3 DEF MadeCalls
<1>3. CASE pending.kind = "request"
  <2>1. c \in RequestCalls(shown')
    BY <1>3 DEF Calls
  <2>2. c = [step |-> "request", case |-> shown'.case] /\ Requests(shown')
    BY <2>1 DEF RequestCalls
  <2>3. shown'.case \in Cases
    BY <2>2 DEF Requests
  <2> QED
    BY <2>2, <2>3 DEF Request, MadeCalls
<1>4. CASE pending.kind = "decision"
  <2>1. pending \in DecisionClick
    BY <1>1, <1>4 DEF RequestClick, TransitionClick, NoClick
  <2>2. c \in DecisionCalls(list')
    BY <1>4 DEF Calls
  <2>3. c = [step |-> "decide", key |-> pending.key, decision |-> pending.decision,
             confirmed |-> pending.confirmed]
    BY <2>2 DEF DecisionCalls
  <2>4. c \in Decision
    BY <2>1, <2>3 DEF DecisionClick, Decision
  <2>5. ~anonymous /\ run.pc = "page"
    BY <1>4, ShowsKeeps DEF DeskShows, Inv, ClicksOK
  <2>6. run.user \in Users
    BY <2>5 DEF Inv, PortalInv, RunOK, Reading
  <2> QED
    BY <2>4, <2>6 DEF MadeCalls
<1>5. pending.kind # "none"
  BY DEF Calls
<1> QED
  BY <1>2, <1>3, <1>4, <1>5 DEF Inv, ClicksOK

LEMMA DeskShowsTypes ==
    ASSUME Inv, TypeInv, DeskShows
    PROVE  TypeInv'
<1>1. PortalTypeOK' /\ run'.user = run.user
  BY ShowsTypes, ShowsKeeps DEF DeskShows, TypeInv, Inv
<1>2. RecordsOK' /\ QueueOK' /\ PendingOK'
  BY QueueStays, RecordsStay DEF DeskShows, TypeInv, PendingOK
<1>3. RenderedOK'
  <2>1. list' = <<>> \/ list' \in Seq(Approvals)
    BY DEF DeskShows, TypeInv, QueueOK
  <2>2. rows' \in Rows \cup {None}
    <3>1. CASE rows' = None
      BY <3>1
    <3>2. CASE Controls(shown') /\ rows' = status'[shown'.case]
      <4>1. shown'.case \in Cases
        BY <3>2 DEF Controls
      <4>2. CasesOK'
        BY DeskShowsKeeps DEF Inv
      <4>3. status'[shown'.case] \in Rows
        BY <4>1, <4>2 DEF CasesOK
      <4> QED
        BY <3>2, <4>3
    <3> QED
      BY <3>1, <3>2 DEF DeskShows
  <2> QED
    BY <2>1, <2>2 DEF RenderedOK
<1>4. CallTypeOK'
  <2>1. PICK c \in Calls(shown', rows', list') \cup {NoCall} : call' = [call EXCEPT !["self"] = c]
    BY DEF DeskShows
  <2>2. c \in MadeCalls /\ (c.step = "decide" => run.user \in Users)
    BY CallsHaveType, NothingIs DEF MadeCalls
  <2> QED
    BY <1>1, <2>1, <2>2, CallTypeTurns DEF TypeInv, Workers
<1> QED
  BY <1>1, <1>2, <1>3, <1>4 DEF TypeInv

LEMMA DeskRunsTypes ==
    ASSUME Inv, TypeInv, DeskRuns
    PROVE  TypeInv'
<1>1. PortalTypeOK' /\ run.pc # "idle"
  BY RunStepTypes, RunStepKeeps DEF DeskRuns, TypeInv, Inv
<1>2. RecordsOK' /\ QueueOK' /\ PendingOK' /\ RenderedOK'
  BY QueueStays, RecordsStay DEF DeskRuns, TypeInv, PendingOK, RenderedOK
<1>3. call["self"] = NoCall /\ call' = call
  BY <1>1 DEF DeskRuns, Inv, CallsOK
<1>4. CallTypeOK'
  BY <1>3, NothingIs DEF TypeInv, CallTypeOK
<1> QED
  BY <1>1, <1>2, <1>4 DEF TypeInv

\* After a click nothing is on the screen, and no call is in progress.
LEMMA ClearedTypes ==
    ASSUME TypeInv, PortalTypeOK', Cleared, Free, PendingOK'
    PROVE  TypeInv'
<1>1. RecordsOK' /\ QueueOK' /\ RenderedOK'
  BY QueueStays, RecordsStay DEF Cleared, TypeInv, RenderedOK
<1>2. CallTypeOK'
  BY NothingIs DEF Cleared, Free, TypeInv, CallTypeOK
<1> QED
  BY <1>1, <1>2 DEF TypeInv

LEMMA ClickElsewhereTypes ==
    ASSUME Inv, TypeInv, ClickElsewhere
    PROVE  TypeInv'
<1>1. PortalTypeOK' /\ PendingOK'
  BY UserStepTypes DEF ClickElsewhere, TypeInv, PendingOK
<1> QED
  BY <1>1, ClearedTypes DEF ClickElsewhere

LEMMA DeskClicksTypes ==
    ASSUME Inv, TypeInv, DeskClicks
    PROVE  TypeInv'
<1>1. ASSUME NEW p \in TransitionClick \cup RequestClick \cup DecisionClick, DeskClick(p)
      PROVE  TypeInv'
  <2>1. PortalTypeOK'
    BY <1>1, ClickTypes DEF DeskClick, TypeInv, PortalTypeOK
  <2>2. PendingOK'
    BY <1>1 DEF DeskClick, PendingOK
  <2> QED
    BY <1>1, <2>1, <2>2, ClearedTypes DEF DeskClick
<1>2. ASSUME NEW key \in Checkpoints, NEW to \in Statuses, ClickTransition(key, to)
      PROVE  TypeInv'
  <2> DEFINE p == [kind |-> "transition", case |-> shown.case, key |-> key, to |-> to, rows |-> rows]
  <2>1. shown.case \in Cases /\ rows \in Rows
    BY <1>2 DEF ClickTransition, Inv, ClicksOK, Controls, TypeInv, RenderedOK
  <2>2. p \in TransitionClick /\ DeskClick(p)
    BY <1>2, <2>1 DEF TransitionClick, ClickTransition
  <2> HIDE DEF p
  <2> QED
    BY <1>1, <2>2
<1>3. CASE ClickRequest
  <2> DEFINE p == [kind |-> "request", case |-> shown.case]
  <2>1. p \in RequestClick /\ DeskClick(p)
    BY <1>3 DEF ClickRequest, Requests, RequestClick
  <2> HIDE DEF p
  <2> QED
    BY <1>1, <2>1
<1>4. ASSUME NEW index \in 1 .. Cardinality(Approvals), NEW decision \in Decisions,
             NEW confirmed \in BOOLEAN, ClickDecision(index, decision, confirmed)
      PROVE  TypeInv'
  <2> DEFINE p == [kind |-> "decision", index |-> index, key |-> list[index],
                   decision |-> decision, confirmed |-> confirmed]
  <2>1. index \in DOMAIN list /\ DeskClick(p)
    BY <1>4 DEF ClickDecision
  <2>2. list[index] \in Approvals
    BY <2>1 DEF TypeInv, RenderedOK
  <2>3. p \in DecisionClick
    BY <2>2 DEF DecisionClick
  <2> HIDE DEF p
  <2> QED
    BY <1>1, <2>1, <2>3
<1> QED
  BY <1>2, <1>3, <1>4 DEF DeskClicks

LEMMA EndsTypes ==
    ASSUME Inv, TypeInv, NEW w \in Workers, Ends(w), RecordsOK', QueueOK'
    PROVE  TypeInv'
<1>1. /\ UNCHANGED <<front, anonymous, serverVars, token, memory, since, changes, clicks, pending>>
      /\ call' = [call EXCEPT ![w] = NoCall]
      /\ \/ w = "self" /\ Starts /\ rows' = None /\ list' = <<>>
         \/ UNCHANGED <<run, shown, rows, list>>
  BY DEF Ends
<1>2. run' \in Run /\ shown' \in Shown
  BY <1>1, BlankHasType DEF Starts, TypeInv, PortalTypeOK
<1>3. token' \in Users \cup {None} /\ memory' \in Memory /\ SinceTypeOK'
  BY <1>1 DEF TypeInv, PortalTypeOK, SinceTypeOK
<1>4. PortalTypeOK'
  BY <1>1, <1>2, <1>3, RunOnlyTypes DEF RunOnly, TypeInv
<1>5. RenderedOK' /\ PendingOK'
  BY <1>1 DEF TypeInv, RenderedOK, PendingOK
<1>6. CallTypeOK'
  BY <1>1, NothingIs, CallTypeTurns DEF TypeInv, MadeCalls
<1> QED
  BY <1>4, <1>5, <1>6 DEF TypeInv

\* A step in which the portal stands still.
LEMMA StandsTypes ==
    ASSUME TypeInv, PortalTypeOK', UNCHANGED <<run, rows, list, pending>>,
           RecordsOK', QueueOK', CallTypeOK'
    PROVE  TypeInv'
BY DEF TypeInv, RenderedOK, PendingOK

LEMMA CallStepsTypes ==
    ASSUME Inv, TypeInv, CallSteps
    PROVE  TypeInv'
<1>1. "self" \in Workers
  BY DEF Workers
<1>2. ASSUME UNCHANGED <<portalVars, rows, list, pending, recordVars, queue, decided>>, CallTypeOK'
      PROVE  TypeInv'
  <2>1. PortalTypeOK' /\ run' = run
    BY <1>2 DEF portalVars, serverVars, TypeInv, PortalTypeOK
  <2> QED
    BY <1>2, <2>1, StandsTypes, QueueStays, RecordsStay DEF TypeInv
<1>3. ASSUME NEW w \in Workers, Fails(w)
      PROVE  TypeInv'
  <2>1. CallTypeOK'
    BY <1>3, NothingIs, CallTypeTurns DEF Fails, portalVars, TypeInv, MadeCalls
  <2> QED
    BY <1>2, <1>3, <2>1 DEF Fails
<1>4. ASSUME NEW w \in Workers, NEW d \in Transition, Continues(w, d)
      PROVE  TypeInv'
  <2>1. call' = [call EXCEPT ![w] = d] /\ run' = run
        /\ UNCHANGED <<portalVars, rows, list, pending, recordVars, queue, decided>>
    BY <1>4 DEF Continues, portalVars
  <2>2. d.step # "decide"
    BY DEF Transition
  <2>3. CallTypeOK'
    BY <2>1, <2>2, CallTypeTurns DEF TypeInv, MadeCalls
  <2> QED
    BY <1>2, <2>1, <2>3
<1>8. CASE CheckAuthority
  <2> DEFINE c == call["self"]
  <2>1. c \in Transition
    BY <1>1, <1>8 DEF CheckAuthority, Inv, CallsOK, CallOK
  <2>2. MayMove(c) /\ Continues("self", Authorized(c))
    BY <1>8 DEF CheckAuthority
  <2>3. Authorized(c) \in Transition
    BY <2>1, <2>2, AuthorizedIs
  <2> QED
    BY <1>1, <1>4, <2>2, <2>3
<1>9. ASSUME NEW w \in Workers, CheckPrior(w)
      PROVE  TypeInv'
  <2> DEFINE c == call[w]
             found == \A k \in Prior(c.key) : status[c.case][k] # "IN_PROGRESS"
             d == [c EXCEPT !.step = "evidence", !.settled = found]
  <2>1. c \in Transition
    BY <1>9 DEF CheckPrior, Inv, CallsOK, CallOK
  <2>2. Continues(w, d) /\ found \in BOOLEAN
    BY <1>9 DEF CheckPrior
  <2> HIDE DEF c, found
  <2>3. d \in Transition
    BY <2>1, <2>2 DEF Transition
  <2> HIDE DEF d
  <2> QED
    BY <1>4, <2>2, <2>3
<1>10. ASSUME NEW w \in Workers, CheckEvidence(w)
       PROVE  TypeInv'
  <2> DEFINE c == call[w]
             d == [c EXCEPT !.step = "write"]
  <2>1. c \in Transition /\ Continues(w, d)
    BY <1>10 DEF CheckEvidence, Inv, CallsOK, CallOK
  <2> HIDE DEF c
  <2>2. d \in Transition
    BY <2>1 DEF Transition
  <2> HIDE DEF d
  <2> QED
    BY <1>4, <2>1, <2>2 DEF c
<1>5. CASE MakeRequest
  <2>1. call["self"] \in Request
    BY <1>1, <1>5, NothingIs DEF MakeRequest, TypeInv, CallTypeOK, MadeCalls, Transition, Decision
  <2>2. RecordsOK'
    BY <1>5, <2>1 DEF MakeRequest, Request, TypeInv, RecordsOK
  <2>3. Ends("self") /\ QueueOK'
    BY <1>5, QueueStays DEF MakeRequest, TypeInv
  <2> QED
    BY <1>1, <2>2, <2>3, EndsTypes
<1>6. CASE Decide
  <2> DEFINE c == call["self"]
  <2>1. /\ c \in Decision /\ run.user \in Users
    BY <1>1, <1>6, NothingIs DEF Decide, TypeInv, CallTypeOK, MadeCalls, Transition, Request
  <2>2. /\ Decided(run.user, c.key, c.decision, c.confirmed)
        /\ Ends("self") /\ RecordsOK'
    BY <1>6, RecordsStay DEF Decide, TypeInv
  <2>3. c.key \in Approvals /\ c.decision \in Decisions /\ c.confirmed \in BOOLEAN
    BY <2>1 DEF Decision
  <2> HIDE DEF c
  <2>4. QueueOK'
    BY <2>1, <2>2, <2>3, DecidedTypes DEF TypeInv
  <2> QED
    BY <1>1, <2>2, <2>4, EndsTypes DEF TypeInv
<1>7. ASSUME NEW w \in Workers, WriteTransition(w)
      PROVE  TypeInv'
  <2>1. Ends(w) /\ QueueOK' /\ RecordsOK'
    BY <1>7, QueueStays, RecordsStay DEF WriteTransition, TypeInv
  <2> QED
    BY <2>1, EndsTypes DEF TypeInv
<1> QED
  BY <1>3, <1>5, <1>6, <1>7, <1>8, <1>9, <1>10 DEF CallSteps

LEMMA OthersTypes ==
    ASSUME Inv, TypeInv, Others
    PROVE  TypeInv'
<1>1. ASSUME Elsewhere, RecordsOK', QueueOK', CallTypeOK'
      PROVE  TypeInv'
  <2>1. /\ UNCHANGED <<front, anonymous, serverVars, token, memory, run, shown, since, clicks>>
        /\ UNCHANGED <<rows, list, pending>>
        /\ changes < MaxChanges /\ changes' = changes + 1
    BY <1>1 DEF Elsewhere
  <2>2. PortalTypeOK'
    BY <2>1, PortalAssumption DEF TypeInv, PortalTypeOK, serverVars
  <2> QED
    BY <1>1, <2>1, <2>2, StandsTypes
<1>2. ASSUME Elsewhere, call' = call
      PROVE  CallTypeOK'
  BY <1>2 DEF Elsewhere, TypeInv, CallTypeOK
<1>3. ASSUME NEW user \in Users, NEW case \in Cases, NEW key \in Checkpoints,
             NEW to \in Statuses, OthersMove(user, case, key, to)
      PROVE  TypeInv'
  <2> DEFINE c == [step |-> "authority", user |-> user, case |-> case, key |-> key, to |-> to,
                   settled |-> FALSE]
  <2>1. /\ MayMove(c) /\ call' = [call EXCEPT !["other"] = Authorized(c)]
        /\ Elsewhere /\ UNCHANGED <<recordVars, queue, decided>>
    BY <1>3 DEF OthersMove
  <2>2. c \in Transition
    BY DEF Transition
  <2> HIDE DEF c
  <2>3. Authorized(c) \in Transition /\ Authorized(c).step # "decide"
    BY <2>1, <2>2, AuthorizedIs
  <2>4. CallTypeOK'
    BY <2>1, <2>3, CallTypeTurns DEF TypeInv, Workers, Elsewhere, MadeCalls
  <2> QED
    BY <1>1, <2>1, <2>4, QueueStays, RecordsStay DEF TypeInv
<1>4. ASSUME NEW case \in Cases, RecordsChange(case)
      PROVE  TypeInv'
  <2>1. /\ Elsewhere /\ UNCHANGED <<queue, decided, call>>
        /\ \/ requested' = Toggled(requested, case) /\ published' = published
           \/ published' = Toggled(published, case) /\ requested' = requested
    BY <1>4 DEF RecordsChange
  <2>2. RecordsOK'
    BY <2>1 DEF Toggled, TypeInv, RecordsOK
  <2> QED
    BY <1>1, <1>2, <2>1, <2>2, QueueStays DEF TypeInv
<1>5. ASSUME NEW a \in Approvals, NEW decision \in Decisions, OthersDecide(a, decision)
      PROVE  TypeInv'
  <2>1. Decided(None, a, decision, TRUE) /\ Elsewhere /\ UNCHANGED <<recordVars, call>>
    BY <1>5 DEF OthersDecide
  <2>2. QueueOK'
    BY <2>1, DecidedTypes DEF TypeInv
  <2> QED
    BY <1>1, <1>2, <2>1, <2>2, RecordsStay DEF TypeInv
<1>6. ASSUME NEW a \in Approvals, NEW place \in 1 .. Len(queue) + 1, Listed(a, place)
      PROVE  TypeInv'
  <2>1. Elsewhere /\ UNCHANGED <<recordVars, call>>
    BY <1>6 DEF Listed
  <2>2. QueueOK'
    BY <1>6, ListedTypes DEF TypeInv
  <2> QED
    BY <1>1, <1>2, <2>1, <2>2, RecordsStay DEF TypeInv
<1> QED
  BY <1>3, <1>4, <1>5, <1>6 DEF Others

LEMMA AdministrationTypes ==
    ASSUME Inv, TypeInv, Administration
    PROVE  TypeInv'
<1>1. PortalTypeOK' /\ run' = run /\ UNCHANGED deskVars
  BY EnvironmentTypes, EnvironmentKeeps DEF Administration, TypeInv, Inv
<1>2. UNCHANGED <<recordVars, queue, decided, rows, list, pending, call>>
  BY <1>1 DEF deskVars
<1>3. CallTypeOK'
  BY <1>1, <1>2 DEF TypeInv, CallTypeOK
<1> QED
  BY <1>1, <1>2, <1>3, StandsTypes, QueueStays, RecordsStay DEF TypeInv

LEMMA TypeInvInit == Init => TypeInv
<1> SUFFICES ASSUME Init PROVE TypeInv
  OBVIOUS
<1>1. PortalTypeOK
  BY PortalInitTypes DEF Init
<1>2. QueueOK
  <2>1. IsFiniteSet(Waiting)
    BY DeskAssumption, FS_Subset
  <2>2. queue \in Seq(Waiting) /\ IsInjective(queue)
    BY <2>1, SetToSeqIs DEF Init, DeskInit
  <2>3. queue \in Seq(Approvals)
    BY <2>2, DeskAssumption
  <2>4. decided = [a \in Approvals |-> None]
    BY DEF Init, DeskInit
  <2> QED
    BY <2>2, <2>3, <2>4 DEF QueueOK, ToSet
<1>3. RenderedOK /\ PendingOK /\ RecordsOK
  BY DeskAssumption DEF Init, DeskInit, RenderedOK, PendingOK, RecordsOK
<1>4. CallTypeOK
  BY NothingIs DEF Init, DeskInit, CallTypeOK, MadeCalls, Workers
<1> QED
  BY <1>1, <1>2, <1>3, <1>4 DEF TypeInv

LEMMA TypeInvStep == Inv /\ TypeInv /\ [Next]_vars => TypeInv'
<1> SUFFICES ASSUME Inv, TypeInv, [Next]_vars PROVE TypeInv'
  OBVIOUS
<1>1. CASE UNCHANGED vars
  <2>1. PortalTypeOK' /\ UNCHANGED <<run, recordVars, queue, decided, rows, list, pending, call>>
    BY <1>1 DEF vars, portalVars, serverVars, deskVars, TypeInv, PortalTypeOK
  <2>2. CallTypeOK'
    BY <2>1 DEF TypeInv, CallTypeOK
  <2> QED
    BY <2>1, <2>2, StandsTypes, QueueStays, RecordsStay DEF TypeInv
<1> QED
  BY <1>1, DeskShowsTypes, DeskRunsTypes, ClickElsewhereTypes, DeskClicksTypes, CallStepsTypes,
     OthersTypes, AdministrationTypes DEF Next

\* Whatever is clicked, decided, listed or granted, here and elsewhere, the
\* session and the desk stay in a state the program can be in: in particular no
\* approval is listed twice, and none that has been decided is still listed.
THEOREM DeskTypeCorrect == Spec => []DeskTypeOK
<1>1. Inv /\ TypeInv => DeskTypeOK
  BY TypeInvIsEnough
<1> QED
  BY <1>1, InvHolds, TypeInvInit, TypeInvStep, PTL DEF Spec
=============================================================================
