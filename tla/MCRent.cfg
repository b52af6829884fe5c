SPECIFICATION Spec
CONSTANTS
    w = w
    wsol = wsol
    m1 = m1
    m2 = m2
    a1 = a1
    a2 = a2
    o1 = o1
    x = x
    payA = payA
    payB = payB
    sys = sys
    self = self
    ptok = ptok
    s1 = s1
    s2 = s2
    NoKey = NoKey
    Wallet = w
    WSOL = wsol
    Self = self
    PhygitalToken = ptok
    MaxU64 = 9
    Accounts <- NoAccounts
    AccountStates <- WindowAccounts
    Mints <- MCMints
    Watched = m1
    Owners <- MCOwners
    Payers = {payA, payB}
    Programs <- MCPrograms
    Baseline = {sys}
    Shapes = {s1, s2}
    Policies <- RentPolicies
    Batches <- RentBatches
    Remaining <- RentRemaining
    OldVersions = {7}
    BaseLen = 1
    MintLen = 1
    EntryLen = 1
    RuleLen = 1
    RentPerByte = 1
    MaxPrograms = 16
    MaxRules = 16
    MaxPermissionBytes = 4096
    Fund = 265
    Donations = {130}
    MaxLamports = 0
    MaxTime = 0
INVARIANTS
    RentExempt
PROPERTIES
    RefundsReachPayer
