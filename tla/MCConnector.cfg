SPECIFICATION ClientsSpec
CONSTANTS
    a = a
    b = b
    f = f
    connect = connect
    auto = auto
    bye = bye
    sign = sign
    NoToken = NoToken
    Tokens = {a, b, f}
    Taps = {a, b}
    Stores <- MCStores
    Calls = {connect, auto, bye, sign}
    Op <- MCOp
    LoadIds = 3
    Requests = {c1, c2, c3}
    None = None
INVARIANTS
    SignsForAccount
PROPERTIES
    NobodyStaysWaiting
CHECK_DEADLOCK FALSE
