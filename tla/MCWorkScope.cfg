SPECIFICATION Spec
SYMMETRY ScopeSymmetry
CONSTANTS
    Phones = {p1, p2}
    Groups = {1, 2}
    Chats = {c1, c2}
    Proxies = {1, 2}
    Days = 2
    MaxId = 2
    MaxEvents = 4
    None = None
INVARIANTS
    ScopeTypeOK
    VerifiedWasConfirmed
    ApprovalHolds
PROPERTIES
    NoSilentRedirect
    AssignmentsStick
