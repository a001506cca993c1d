CONSTANTS
    Users = {u1, u2}
    Cases = {c1, c2}
    Locked = {c2}
    GivenRoles = {"owner", "admin", "analyst", "client"}
    Casts <- TheCasts
    Visits = {"Cases", "Decisions", "Clients", "Reports", "Case Queue", "Housing"}
    MaxChanges = 1
    MaxClicks = 4
    Approvals = {a1, a2}
    Protected = {a1}
    Waiting = {a1}
    Synthetic = {c1}
    Delivered = {c1, c2}
    Moments = {"page", "run", "call"}
    None = None
SYMMETRY Symmetry
SPECIFICATION Spec
CHECK_DEADLOCK FALSE
INVARIANTS
    DeskTypeOK
    ShownIsAuthorized
    DecisionIsMeant
    ClosedWasComplete
