CONSTANTS
    Tokens = {t1, t2}
    Keys = {k1, k2}
    Credentials = {p1}
    Challenges = {c1}
    Requests = {r1, r2}
    None = None
    BrowseTTL = 2
    OwnerTTL = 3
    ChallengeTTL = 1
    MaxCounter = 2
    MaxEvents = 3
    Accessories = {t1, t2}
    NoAccessory = NoAccessory
    MaxActions = 2
    MaxElsewhere = 1

SPECIFICATION ScenesSpec

SYMMETRY Symmetry

INVARIANTS
    GatesAgree
    TapsRise
    ChallengeSpent
    OwnerModeExpires
    SignOutHolds
    Arrives

PROPERTIES
    BackupKept

CHECK_DEADLOCK FALSE
