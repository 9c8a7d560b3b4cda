SPECIFICATION Spec
CONSTANTS
    o1 = o1
    o2 = o2
    adm = adm
    kpr = kpr
    A = A
    W = W
    Sol = Sol
    Pool = Pool
    NoLink = NoLink
    NoAuto = NoAuto
    InitialAdmin = adm
    InitialKeeper = kpr
    Successors = {}
    SecsPerDay = 2
    TimeFeeMaxDays = 2
    U32Max = 2
    U64Max = 8
    Wallets = {o1, adm, kpr}
    Owners = {o1}
    Mints = {A, W}
    Wsol = W
    Requests <- EscrowRequests
    MaxSwapFeeBps = 0
    MaxTimeFee = 0
    DefaultSwapFeeBps = 0
    DefaultTimeFee = 0
    MaxAutomations = 2
    Devnet = FALSE
    Rent = 2
    AtaRent = 1
    EmptyRent = 1
    MinAmount = 1
    MaxLinkFee = 1
    BpsScale = 10
    MaxTime = 3
    Fills = {1}
    TopUps = {1}
    Endowment = 6
    PoolTokens = 2
    UntypedClose = FALSE
INVARIANTS TypeOK RentFloor CadenceSound SwapFunded OwnerCloseLeavesNothing Conserved
PROPERTIES KeepsSchedule
CHECK_DEADLOCK FALSE
