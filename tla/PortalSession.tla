----------------------------- MODULE PortalSession -----------------------------
(***************************************************************************)
(* One browser session of the Streamlit portal or of the Owner Console.    *)
(* A run of the script takes the session's token, reads the user's profile *)
(* and then the two tables that grant cases, and shows a page of a case;   *)
(* which ones depends on what earlier runs, of this user or of others who  *)
(* signed in before, left in the session.  Meanwhile an administrator may  *)
(* change the profile and the grants.                                      *)
(***************************************************************************)
EXTENDS Naturals, FiniteSets

CONSTANTS
    Users, Cases,
    Locked,       \* cases whose production gate is closed
    GivenRoles,   \* bound: the roles profiles get
    Casts,        \* bound: the roles the users have at first
    Visits,       \* bound: the pages that are clicked
    MaxChanges,   \* bound: what others change meanwhile
    MaxClicks,    \* bound: clicks, and changes, in all
    None

ASSUME PortalAssumption ==
    /\ Locked \subseteq Cases
    /\ GivenRoles \subseteq {"owner", "admin", "analyst", "reviewer", "client", "read_only"}
    /\ Casts \subseteq [Users -> GivenRoles]
    /\ MaxChanges \in Nat /\ MaxClicks \in Nat
    /\ None \notin Users \cup Cases \cup {"owner-private"}
    /\ Cases # {} /\ "owner-private" \notin Cases

VARIABLES
    front,      \* "portal" or "reference", the two programs
    anonymous,  \* the demo without accounts
    profile,    \* each user's role, and whether the account is active
    member, assigned,  \* the cases each user is granted, in two tables
    token,      \* whose token the session holds
    memory,     \* what the session remembers
    run,        \* the run of the script
    shown,      \* what the last run rendered
    since,      \* ghost: roles and cases the user has held since the run began
    changes, clicks
serverVars == <<profile, member, assigned>>
portalVars == <<front, anonymous, serverVars, token, memory, run, shown, since, changes, clicks>>

-----------------------------------------------------------------------------
(* Roles and pages. *)

Roles == {"owner", "admin", "analyst", "reviewer", "client", "read_only"}
Experiences == {"owner", "admin", "employee", "client"}
Staff == {"owner", "admin", "analyst", "reviewer"}

\* ROLE_PERMISSIONS, without the permission to view, which all have.
Permissions(role) ==
    CASE role \in {"owner", "admin"} -> {"upload", "analyze", "review", "manage_users"}
      [] role = "analyst"   -> {"upload", "analyze", "review"}
      [] role = "reviewer"  -> {"review"}
      [] role = "client"    -> {"upload"}
      [] role = "read_only" -> {}

\* The permissions a page needs, any one of them.
Needs(page) ==
    CASE page \in {"Upload Documents", "Secure Intake"} -> {"upload"}
      [] page = "Evidence"       -> {"analyze", "review"}
      [] page = "Review Center"  -> {"review"}
      [] page = "Analysis"       -> {"analyze"}
      [] page \in {"Clients", "Administration"} -> {"manage_users"}
      [] OTHER -> {}
Permits(role, page) == Needs(page) = {} \/ Needs(page) \cap Permissions(role) # {}

ClientPages == {"Dashboard", "My Case", "Upload Documents", "Requests & To-Do", "Progress",
                "Reports", "Messages", "My Account", "Help & Support"}
AdminPages == {"Dashboard", "Clients", "Cases", "Secure Intake", "Records", "Review Center",
               "Analysis", "Reports", "Requests & To-Do", "Messages", "Administration"}
EmployeePages == AdminPages \ {"Clients", "Administration"}
ReferencePages == {"Dashboard", "Engagements", "Secure Intake", "Evidence", "Review Center",
                   "Analysis", "Reports", "Administration"}

\* The labels of the Owner Console's sidebar.
OwnerLabels == {"Start My Day", "My Workspace", "Decisions", "Notifications",
    "Clients", "Cases", "Records", "Reports", "Referrals",
    "Finance", "Billing", "Contracts", "Pricing", "Documents",
    "Team", "Capacity", "Assignments", "Access",
    "DARI", "Dispatcher", "Knowledge", "Docket", "Implementation", "System Health",
    "Fix Center", "Integrations", "Deployments", "System Lab"}
OwnerDefaults == {"Start My Day", "My Workspace"}
CardPages == {"Implementation", "Dispatcher", "Decisions", "Fix Center", "Capacity", "Cases", "Reports"}
FoundPages == {"Cases", "Records", "Dispatcher", "Decisions"}
OwnerPrivatePages == {"Private Home", "Employment / Career", "Housing", "Personal Finance",
                      "Chapter 2", "Private Legal", "Continuity"}
CaseFlow == {"Case Queue", "Record Ingestion", "Evidence", "Analysis", "Human Review", "Reports"}
Previews == {"Owner", "Client", "Employee", "Admin"}

\* Only the portal has a console for administrators.
Experience(role) ==
    IF role = "owner" THEN "owner"
    ELSE IF role \in {"client", "read_only"} THEN "client"
    ELSE IF role = "admin" /\ front = "portal" THEN "admin"
    ELSE "employee"

PortalPages(role) ==
    IF role \in {"client", "read_only"} THEN ClientPages
    ELSE IF role = "admin" THEN AdminPages
    ELSE {p \in EmployeePages : Permits(role, p)}
VisiblePages(role) ==
    {p \in IF role \in {"client", "read_only"} THEN ClientPages ELSE ReferencePages :
        Permits(role, p)}
Pages(role) == IF front = "portal" THEN PortalPages(role) ELSE VisiblePages(role)

AllPages == ClientPages \cup AdminPages \cup ReferencePages
               \cup OwnerLabels \cup OwnerPrivatePages \cup CaseFlow

\* What the profile menu leads to.
ProfileTargets(role) ==
    CASE role \in {"client", "read_only"} -> {"My Case", "Reports", "My Account"}
      [] role = "reviewer" -> {"Engagements", "Evidence", "Review Center"}
      [] role = "admin"    -> {"Engagements", "Evidence", "Analysis", "Review Center", "Administration"}
      [] OTHER             -> {"Engagements", "Evidence", "Analysis", "Review Center"}
\* What the page of a client leads to.
ClientLinks == {"Cases", "Records", "Reports", "DARI"}
\* The neighbours of the stages of a case that a page shows.
Neighbours(page) ==
    CASE page = "Reports" -> {"Case Queue", "Human Review"}
      [] page = "Records" -> {"Case Queue", "Record Ingestion", "Evidence", "Analysis"}
      [] OTHER            -> {}

-----------------------------------------------------------------------------
(* The state. *)

Everyone == Users \cup {"demo"}
Workspaces == Cases \cup {"owner-private"}
Profile == [role : Roles, active : BOOLEAN]
Memory == [page : [Everyone -> AllPages \cup {None}],
           nav : [Everyone \X Experiences -> AllPages \cup {None}],
           asked : [Everyone \cup {"anyone"} -> AllPages \cup {None}],
           case : [Everyone -> Workspaces \cup {None}],
           caseAsked : [Everyone -> Workspaces \cup {None}],
           preview : [Everyone -> Previews], persona : {"owner", "admin", "analyst", "client"}]
Run == [pc : {"idle", "start", "profile", "members", "assignments", "page"},
        user : Everyone \cup {None}, role : Roles \cup {None}, cases : SUBSET Workspaces]
Shown == [kind : {"nothing", "signin", "denied", "error", "none", "locked", "refused", "page"},
          user : Everyone \cup {None}, role : Roles \cup {None}, page : AllPages \cup {None},
          case : Workspaces \cup {None}, preview : Previews]

Blank == [kind |-> "nothing", user |-> None, role |-> None, page |-> None, case |-> None,
          preview |-> "Owner"]
Unused == [page |-> [u \in Everyone |-> None],
           nav |-> [k \in Everyone \X Experiences |-> None],
           asked |-> [k \in Everyone \cup {"anyone"} |-> None],
           case |-> [u \in Everyone |-> None],
           caseAsked |-> [u \in Everyone |-> None],
           preview |-> [u \in Everyone |-> "Owner"], persona |-> "owner"]
Idle == [pc |-> "idle", user |-> None, role |-> None, cases |-> {}]

PortalTypeOK ==
    /\ front \in {"portal", "reference"} /\ anonymous \in BOOLEAN
    /\ profile \in [Users -> Profile]
    /\ member \in [Users -> SUBSET Cases] /\ assigned \in [Users -> SUBSET Cases]
    /\ token \in Users \cup {None}
    /\ memory \in Memory /\ run \in Run /\ shown \in Shown
    /\ since \in [roles : SUBSET Roles, cases : SUBSET Workspaces]
    /\ changes \in 0 .. MaxChanges /\ clicks \in 0 .. MaxClicks

Granted(u) == member[u] \cup assigned[u]
RolesOf(u) == IF profile[u].active THEN {profile[u].role} ELSE {}

PortalInit ==
    /\ front \in {"portal", "reference"} /\ anonymous \in BOOLEAN
    /\ profile \in IF anonymous THEN [Users -> [role : {"client"}, active : {FALSE}]]
                  ELSE {[u \in Users |-> [role |-> cast[u], active |-> TRUE]] : cast \in Casts}
    /\ member \in {[u \in Users |-> granted] : granted \in {{}, IF anonymous THEN {} ELSE Cases}}
    /\ assigned = [u \in Users |-> {}]
    /\ token = None /\ memory = Unused
    /\ run = [Idle EXCEPT !.pc = "start"] /\ shown = Blank
    /\ since = [roles |-> {}, cases |-> {}]
    /\ changes = 0 /\ clicks = 0

-----------------------------------------------------------------------------
(* A run of the script. *)

Starts == run' = [Idle EXCEPT !.pc = "start"] /\ shown' = Blank
Stops(kind) ==
    /\ run' = [run EXCEPT !.pc = "idle"]
    /\ shown' = [Blank EXCEPT !.kind = kind]

\* What belongs to a widget may be dropped by a run that does not render it.
Dropped == [memory EXCEPT !.nav = Unused.nav, !.case = Unused.case, !.preview = Unused.preview]
Drops == memory' \in {memory, Dropped}

\* Without accounts everybody is the demo user, in the role chosen last.
DemoCase == CHOOSE c \in Cases : TRUE
BeginDemo ==
    /\ run.pc = "start" /\ anonymous
    /\ run' = [pc |-> "page", user |-> "demo", role |-> memory.persona, cases |-> {DemoCase}]
    /\ since' = [roles |-> {memory.persona}, cases |-> {DemoCase}]
    /\ UNCHANGED <<front, anonymous, serverVars, token, memory, shown, changes, clicks>>

BeginSignedOut ==
    /\ run.pc = "start" /\ ~anonymous /\ token = None
    /\ Stops("signin") /\ Drops
    /\ UNCHANGED <<front, anonymous, serverVars, token, since, changes, clicks>>

Begin ==
    /\ run.pc = "start" /\ token # None
    /\ run' = [run EXCEPT !.pc = "profile", !.user = token]
    /\ since' = [roles |-> RolesOf(token), cases |-> Granted(token)]
    /\ UNCHANGED <<front, anonymous, serverVars, token, memory, shown, changes, clicks>>

\* _load_session: a session that is about to expire cannot be refreshed; the
\* exception leaves the token where it is.
RefreshFails ==
    /\ run.pc \in {"start", "page"} /\ token # None
    /\ Stops("error") /\ Drops
    /\ UNCHANGED <<front, anonymous, serverVars, token, since, changes, clicks>>

\* sign_out forgets the token and nothing else.
SignedOut == token' = None

\* Mutant: the profile of the last run is kept.
ReadProfileKept ==
    /\ run.pc = "profile" /\ profile[run.user].active
    /\ LET kept == {k \in Roles : memory.nav[<<run.user, Experience(k)>>] # None}
       IN  run' = [run EXCEPT !.pc = "members",
                              !.role = IF kept = {} THEN profile[run.user].role
                                       ELSE CHOOSE k \in kept : TRUE]
    /\ UNCHANGED <<front, anonymous, serverVars, token, memory, shown, since, changes, clicks>>

ReadProfile ==
    /\ run.pc = "profile" /\ profile[run.user].active
    /\ run' = [run EXCEPT !.pc = "members", !.role = profile[run.user].role]
    /\ UNCHANGED <<front, anonymous, serverVars, token, memory, shown, since, changes, clicks>>

ReadMemberships ==
    /\ run.pc = "members"
    /\ run' = [run EXCEPT !.pc = "assignments", !.cases = member[run.user]]
    /\ UNCHANGED <<front, anonymous, serverVars, token, memory, shown, since, changes, clicks>>

\* The Owner Console gives an owner without a case a workspace of his own.
OwnWorkspace(role, cases) ==
    IF front = "reference" /\ role = "owner" /\ cases = {} THEN {"owner-private"} ELSE cases

ReadAssignments ==
    /\ run.pc = "assignments"
    /\ run' = [run EXCEPT !.pc = "page",
                          !.cases = OwnWorkspace(run.role, @ \cup assigned[run.user])]
    /\ UNCHANGED <<front, anonymous, serverVars, token, memory, shown, since, changes, clicks>>

\* An inactive profile, or a lookup that fails: the user is signed out.
Refused ==
    /\ run.pc \in {"profile", "members", "assignments"}
    /\ SignedOut /\ Stops("denied") /\ Drops
    /\ UNCHANGED <<front, anonymous, serverVars, since, changes, clicks>>

\* Only the portal is prepared for a user without a case.
WithoutCase ==
    /\ run.pc = "page" /\ run.cases = {}
    /\ Stops(IF front = "portal" THEN "none" ELSE "error") /\ Drops
    /\ UNCHANGED <<front, anonymous, serverVars, token, since, changes, clicks>>

\* _select_engagement: the case asked for, the one selected last, or the first.
SelectedCase ==
    LET u == run.user IN
    IF memory.caseAsked[u] \in run.cases THEN memory.caseAsked[u]
    ELSE IF memory.case[u] \in run.cases THEN memory.case[u]
    ELSE CHOOSE c \in run.cases : TRUE
CaseSelected ==
    [memory EXCEPT !.caseAsked[run.user] = None, !.case[run.user] = SelectedCase]

Renders(kind, page) ==
    /\ run' = [run EXCEPT !.pc = "idle"]
    /\ shown' = [kind |-> kind, user |-> run.user, role |-> run.role, page |-> page,
                 case |-> SelectedCase,
                 preview |-> IF anonymous THEN "Owner" ELSE memory.preview[run.user]]
    /\ UNCHANGED <<front, anonymous, serverVars, token, since, changes, clicks>>

ShowLocked ==
    /\ run.pc = "page" /\ run.cases # {} /\ SelectedCase \in Locked
    /\ memory' = CaseSelected
    /\ Renders("locked", None)

\* _structured_sidebar: a page that is not in the sidebar is forgotten.  Which
\* default stands in depends on the time of day.
ShowOwner ==
    LET u == run.user
        asked == memory.page[u]
    IN  /\ run.pc = "page" /\ run.cases # {} /\ SelectedCase \notin Locked
        /\ run.role = "owner"
        /\ \E default \in OwnerDefaults :
              /\ memory' = [CaseSelected EXCEPT
                    !.page[u] = IF asked \in OwnerLabels \cup {None} THEN asked ELSE default]
              /\ Renders("page", IF asked \in OwnerLabels THEN asked ELSE default)

\* _select_page and its like: the page asked for, the one shown last, or the
\* first.  The page itself looks at the permissions once more.
Slot == IF front = "portal" THEN "anyone" ELSE run.user
SelectedPage ==
    LET last == memory.nav[<<run.user, Experience(run.role)>>]
        pages == Pages(run.role)
    IN  IF memory.asked[Slot] \in pages THEN memory.asked[Slot]
        ELSE IF last \in pages THEN last ELSE "Dashboard"
ShowPage ==
    /\ run.pc = "page" /\ run.cases # {} /\ SelectedCase \notin Locked
    /\ run.role # "owner"
    /\ memory' = [CaseSelected EXCEPT !.asked[Slot] = None,
                      !.nav[<<run.user, Experience(run.role)>>] = SelectedPage]
    /\ Renders(IF Permits(run.role, SelectedPage) THEN "page" ELSE "refused", SelectedPage)

Shows == ShowLocked \/ ShowOwner \/ ShowPage
RunStep ==
    \/ BeginDemo \/ BeginSignedOut \/ Begin \/ RefreshFails
    \/ ReadProfile \/ ReadMemberships \/ ReadAssignments \/ Refused
    \/ WithoutCase

-----------------------------------------------------------------------------
(* The user: every click starts the script again. *)

Click(m) ==
    /\ run.pc = "idle"
    /\ clicks + changes < MaxClicks /\ clicks' = clicks + 1
    /\ memory' = m /\ Starts
    /\ UNCHANGED <<front, anonymous, serverVars, since, changes>>
OnPage == shown.kind \in {"page", "refused"}

SignIn(u) ==
    /\ shown.kind = "signin"
    /\ token' = u /\ Click(memory)

Rerun == shown.kind # "nothing" /\ Click(memory) /\ UNCHANGED token

\* The browser's reload button: a session of its own.
Reload == Click(Unused) /\ token' = None

LogOut == OnPage /\ ~anonymous /\ SignedOut /\ Click(memory)

\* The radio of the sidebar.
Navigate(page) ==
    /\ OnPage /\ shown.role # "owner"
    /\ page \in Pages(shown.role)
    /\ Click([memory EXCEPT !.nav[<<shown.user, Experience(shown.role)>>] = page])
    /\ UNCHANGED token

\* Links that ask for a page, which need not be one the user has: of a client,
\* for administrators of the portal, and of the profile menu.
AskAdmin(page, case) ==
    /\ OnPage /\ front = "portal"
    /\ shown.role = "admin" /\ shown.page = "Clients"
    /\ page \in ClientLinks /\ case \in run.cases
    /\ Click([memory EXCEPT !.asked["anyone"] = IF page \in AdminPages THEN page ELSE "Dashboard",
                            !.caseAsked[shown.user] = IF page = "DARI" THEN @ ELSE case])
    /\ UNCHANGED token
AskProfile(page) ==
    /\ OnPage /\ front = "reference" /\ shown.role # "owner"
    /\ page \in ProfileTargets(shown.role)
    /\ Click([memory EXCEPT !.asked[shown.user] = page])
    /\ UNCHANGED token

\* The Owner Console: the sidebar and the cards that repeat it, ...
Opened(page, case) ==
    /\ OnPage /\ shown.role = "owner"
    /\ Click([memory EXCEPT !.page[shown.user] = page,
                            !.caseAsked[shown.user] = IF case = None THEN @ ELSE case])
    /\ UNCHANGED token
Open(page) == page \in OwnerLabels /\ Opened(page, None)
\* ... the cards of the first pages, the search and the notifications (a case
\* that is found is not selected), ...
OpenCard(page) ==
    /\ shown.page \in OwnerDefaults /\ shown.preview = "Owner" /\ page \in CardPages
    /\ Opened(page, None)
OpenFound(page) == page \in FoundPages /\ Opened(page, None)
\* ... the pages that are private to the owner, ...
OpenPrivate(page) == front = "reference" /\ page \in OwnerPrivatePages /\ Opened(page, None)
\* ... the stages of a case and their neighbours, and the links of a client.
OpenStage(page, case) ==
    /\ shown.page = "Cases" /\ shown.preview = "Owner"
    /\ page \in CaseFlow \ {"Case Queue"} /\ case \in run.cases
    /\ Opened(page, case)
Footer(page) == shown.preview = "Owner" /\ page \in Neighbours(shown.page) /\ Opened(page, shown.case)
OpenClient(page, case) ==
    /\ shown.page = "Clients" /\ page \in ClientLinks /\ case \in run.cases
    /\ Opened(page, IF page = "DARI" THEN None ELSE case)

\* "View as": the menu is part of the Owner Console's front only.
ViewAs(preview) ==
    /\ OnPage /\ front = "reference" /\ shown.role = "owner" /\ ~anonymous
    /\ Click([memory EXCEPT !.preview[shown.user] = preview])
    /\ UNCHANGED token

\* The box in the sidebar: the case, or the demo's role.
SwitchCase(case) ==
    /\ shown.kind \in {"page", "refused", "locked"} /\ ~anonymous
    /\ case \in run.cases
    /\ Click([memory EXCEPT !.case[shown.user] = case])
    /\ UNCHANGED token
SwitchPersona(role) ==
    /\ OnPage /\ anonymous
    /\ Click([memory EXCEPT !.persona = role])
    /\ UNCHANGED token

UserStep ==
    \/ \E u \in Users : SignIn(u)
    \/ Rerun \/ Reload \/ LogOut
    \/ \E page \in Visits :
          \/ Navigate(page) \/ AskProfile(page)
          \/ Open(page) \/ OpenCard(page) \/ OpenFound(page) \/ OpenPrivate(page) \/ Footer(page)
          \/ \E case \in Cases : AskAdmin(page, case) \/ OpenStage(page, case) \/ OpenClient(page, case)
    \/ \E preview \in Previews : ViewAs(preview)
    \/ \E case \in Cases : SwitchCase(case)
    \/ \E role \in {"owner", "admin", "analyst", "client"} : SwitchPersona(role)

-----------------------------------------------------------------------------
(* Administrators and other programs. *)

Meanwhile(u) ==
    /\ changes < MaxChanges /\ clicks + changes < MaxClicks /\ changes' = changes + 1
    /\ since' = IF run.pc \notin {"idle", "start"} /\ run.user = u
                  THEN [roles |-> since.roles \cup (IF profile'[u].active THEN {profile'[u].role} ELSE {}),
                        cases |-> since.cases \cup member'[u] \cup assigned'[u]]
                  ELSE since
    /\ UNCHANGED <<front, anonymous, token, memory, run, shown, clicks>>

ProfileChanges(u) ==
    /\ \/ \E role \in GivenRoles \ {profile[u].role} : profile' = [profile EXCEPT ![u].role = role]
       \/ profile' = [profile EXCEPT ![u].active = ~@]
    /\ UNCHANGED <<member, assigned>>
    /\ Meanwhile(u)
Toggled(set, c) == IF c \in set THEN set \ {c} ELSE set \cup {c}
GrantChanges(u, c) ==
    /\ \/ member' = [member EXCEPT ![u] = Toggled(@, c)] /\ UNCHANGED assigned
       \/ assigned' = [assigned EXCEPT ![u] = Toggled(@, c)] /\ UNCHANGED member
    /\ UNCHANGED profile
    /\ Meanwhile(u)

Environment ==
    \E u \in Users : ProfileChanges(u) \/ \E c \in Cases : GrantChanges(u, c)

-----------------------------------------------------------------------------
(* Properties. *)

\* A page is shown only to a user who, at some moment of the run that rendered
\* it, held a role that permits the page, and nothing of a case, not even that
\* it is locked, to one who was not granted the case at some moment of that run:
\* whatever pages, cases and requests other runs and other users left in the
\* session, and although role and grants are read one after the other.
ShownIsAuthorized ==
    /\ shown.kind = "page" =>
          \E role \in since.roles :
             /\ Experience(role) = Experience(shown.role)
             /\ IF role = "owner" THEN shown.page \in OwnerLabels
                ELSE Permits(role, shown.page) /\ shown.page \in Pages(role)
    /\ shown.case \in since.cases \cup {None, "owner-private"}
    /\ shown.case = "owner-private" => "owner" \in since.roles
=============================================================================
