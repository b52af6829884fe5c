SPECIFICATION Spec
CONSTANTS
    create = create
    unlock = unlock
    sign = sign
    export = export
    bad = bad
    mine = mine
    other = other
    Ids = {unlock, sign}
    Type <- MCType
    Malformed = {bad}
    Previewed = {sign}
    Signers <- MCSigners
    Wallets = {mine, other}
    SEEN_REQUEST_IDS_LIMIT = 1
    MaxAccepted = 2
    MaxAnswers = 2
INVARIANT CancelledYieldsNothing
