SPECIFICATION Spec
CONSTANTS
    o1 = o1
    o2 = o2
    adm = adm
    kpr = kpr
    A = A
    W = W
    Sol = Sol
    Pool = Pool
    NoLink = NoLink
    NoAuto = NoAuto
    InitialAdmin = adm
    InitialKeeper = adm
    Successors = {o2}
    SecsPerDay = 2
    TimeFeeMaxDays = 1
    U32Max = 2
    U64Max = 8
    Wallets = {o1, o2, adm}
    Owners = {o1, o2}
    Mints = {A, W}
    Wsol = W
    Requests <- GovernRequests
    MaxSwapFeeBps = 1
    MaxTimeFee = 1
    DefaultSwapFeeBps = 1
    DefaultTimeFee = 1
    MaxAutomations = 1
    Devnet = TRUE
    Rent = 2
    AtaRent = 1
    EmptyRent = 1
    MinAmount = 1
    MaxLinkFee = 0
    BpsScale = 2
    MaxTime = 1
    Fills = {2}
    TopUps = {}
    Endowment = 5
    PoolTokens = 2
    UntypedClose = TRUE
INVARIANTS NonceUsedOnce AlwaysSweepable
PROPERTIES WindDownFlow
CHECK_DEADLOCK FALSE
