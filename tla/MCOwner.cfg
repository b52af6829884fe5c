SPECIFICATION OwnerSpec
CONSTANTS
    create = create
    unlock = unlock
    sign = sign
    export = export
    bad = bad
    mine = mine
    other = other
    Ids = {create, unlock, sign, export, bad}
    Type <- MCType
    Malformed = {bad}
    Previewed = {sign}
    Signers <- MCSigners
    Wallets = {mine, other}
    SEEN_REQUEST_IDS_LIMIT = 1
    MaxAccepted = 3
    MaxAnswers = 2
    Owners <- MCOwners
    Ends <- MCEnds
    KnownMints <- MCKnownMints
    SolDecimals = 3
    Day = 2
    Transactions <- MCTransactions
    Phones = {ph1, ph2}
    Credentials = {k0, k1, k2}
    Earlier = {k0}
    Handlers = {r1, r2}
    Items = {item}
    None = None
INVARIANTS
    AuthorizationBound
    SignedAsAgreed
    SeedsScrubbed
    DuplicateNeedsEviction
    SheetTells
    WalletsSurvive
CHECK_DEADLOCK FALSE
