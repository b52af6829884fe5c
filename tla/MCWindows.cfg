SPECIFICATION Spec
CONSTANTS
    w = w
    wsol = wsol
    m1 = m1
    m2 = m2
    a1 = a1
    a2 = a2
    o1 = o1
    x = x
    payA = payA
    payB = payB
    sys = sys
    self = self
    ptok = ptok
    s1 = s1
    s2 = s2
    NoKey = NoKey
    Wallet = w
    WSOL = wsol
    Self = self
    PhygitalToken = ptok
    MaxU64 = 9
    Accounts <- MCAccounts1
    AccountStates <- WindowAccounts
    Mints <- MCMints
    Watched = m1
    Owners <- MCOwners
    Payers = {payA}
    Programs <- MCPrograms
    Baseline = {sys}
    Shapes = {s1}
    Policies <- WindowPolicies
    Batches <- WindowBatches
    Remaining <- WindowRemaining
    OldVersions = {}
    BaseLen = 156
    MintLen = 64
    EntryLen = 33
    RuleLen = 20
    RentPerByte = 1
    MaxPrograms = 16
    MaxRules = 16
    MaxPermissionBytes = 4096
    Fund = 1000
    Donations = {}
    MaxLamports = 2
    MaxTime = 5
PROPERTIES
    AllowanceSpec
    ControlKept
