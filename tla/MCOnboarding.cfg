SPECIFICATION Spec
SYMMETRY OnboardingSymmetry
CONSTANTS
    Sessions = {s1, s2}
    Phones = {p1, p2}
    Known = {p1}
    Chats = {c1, c2}
    MaxUses = 1
    MaxInvites = 2
    MaxProfiles = 2
    MaxStarts = 2
    MaxEvents = 1
    None = None
    Blank = Blank
INVARIANTS
    OnboardingTypeOK
    HalfPromotionsAreUndone
PROPERTIES
    ProvedForCurrentDestination
    InstalledIsProved
CHECK_DEADLOCK FALSE
