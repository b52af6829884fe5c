SPECIFICATION WebSpec
CONSTANTS
    Runs = {r1, r2}
    MaxAttempts = 2
    NotLoaded = NotLoaded
    sol = sol
    mint = mint
    p3 = p3
    me = me
    you = you
    art = art
    Sol = sol
    Mints = {mint}
    SolDecimals = 1
    Decimals <- MCDecimals
    Typed <- MCTyped
    PanelWindows = {0, 2}
    DefaultWindow = 2
    Presets <- MCPresets
    PresetDecimals = 1
    MaxMintCaps = 1
    PanelPrograms = {p1, p2, p3}
    Capabilities <- MCCapabilities
    FirstPolicies <- MCFirstPolicies
    OtherPolicies = {}
    Charges = {8}
    Saves = {s1}
    NoSave = NoSave
    MaxTouched = 1
    MaxWrites = 1
    MaxNow = 1
    Home = me
    Wallets = {me, you}
    NoWallet = NoWallet
    Coins = {sol}
    Collectibles = {art}
    NoAsset = NoAsset
    DefaultCoin = sol
    Balance <- MCBalance
    Amounts = {2}
    TopUpAmount = 1
    MaxPays = 2
    MaxTaps = 2
    w = w
    tk = tk
    au = au
    owner = owner
    f = f
    x = x
    p1 = p1
    p2 = p2
    self = self
    ptok = ptok
    Base = 2
    MaxMatch = 2
    MaxConstraints = 2
    MaxRules = 2
    MaxPermissions = 2
    MaxHeap = 16
    SizeOf <- MCSizes
    Refused = {self, ptok}
    Allowed = {p1}
    Addresses <- MCAddresses
    Wallet = w
    Token = tk
    AuthorityAccount = au
    Authority = owner
    FeePayer = f
    Self = self
    PhygitalToken = ptok
    OwnerOf <- MCOwnerOf
    DataOf <- MCDataOf
    Messages <- MCMessages
    Policies <- MCPolicies
    KeepSlots = 3
    MaxSlot = 4
INVARIANTS
    ShownIsTrue
    SpendsOnce
    PatchForetells
    MatrixIsSafe
    
    BusyIsTrue
    TapsAsAsked
    PreviewAgrees
    SearchFinds
    PoliciesHold
PROPERTIES
    UntouchedKept
CHECK_DEADLOCK FALSE
