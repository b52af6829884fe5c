SPECIFICATION FairSpec
CONSTANTS
    a = a
    b = b
    top = top
    bad = bad
    Messages = {a, b, top, bad}
    Kind <- MCKind
    Credit <- MCCredit
    Debit <- MCDebit
    Batches <- MCBatches
    Outside = {top}
    Requests = {r1, r2}
    MIN_ATTEMPT_FEE_LAMPORTS = 1
    STARTER_FEE_BALANCE_LAMPORTS = 2
    MAX_CONCURRENT_FEE_RESERVES = 2
    FEE_RESERVE_TTL = 2
    Restarts = TRUE
PROPERTIES
    NoStrayReserve
    ReservesFit
    AnsweredReserveKept
    BookSpec
    ReservesCleared
