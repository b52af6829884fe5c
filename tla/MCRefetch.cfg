SPECIFICATION PagesSpec
CONSTANTS
    me = me
    you = you
    sol = sol
    art = art
    Home = me
    Wallets = {me, you}
    NoWallet = NoWallet
    Coins = {sol}
    Collectibles = {art}
    NoAsset = NoAsset
    DefaultCoin = sol
    Balance <- MCBalance
    Amounts = {2}
    TopUpAmount = 1
    MaxPays = 1
    MaxTaps = 1
PROPERTIES
    RefetchKeepsForm
CHECK_DEADLOCK FALSE
