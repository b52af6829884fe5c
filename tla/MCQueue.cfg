SPECIFICATION FairSpec
CONSTANTS
    a = a
    b = b
    old = old
    junk = junk
    w1 = w1
    w2 = w2
    Messages = {a, b, old, junk}
    Malformed = {junk}
    Credits = {b}
    Debits = {a, b}
    Earlier = {old}
    Queued = {junk}
    Wallets = {w1, w2}
    Readers = {w1}
    Affects <- MCAffects
    BlockTime <- MCBlockTime
    Consumers = {c1}
    Copies = 1
    MaxBatch = 2
    MAX_RETRIES = 1
    D1_BATCH_CHUNK = 1
    Limits = {1}
INVARIANTS
    BookedIsShown
    WalkComplete
PROPERTIES
    LandedIsBooked
CHECK_DEADLOCK FALSE
