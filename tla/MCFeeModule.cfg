SPECIFICATION MCSpec
CONSTANTS
    c1 = c1
    c2 = c2
    vault = vault
    zero = zero
    eth = eth
    usdc = usdc
    noFrame = noFrame
    Accounts <- MCAccounts
    ZeroAddr = zero
    MaxAgents = 1
    ETH = eth
    ERC20s = {usdc}
    MaxTasks = 2
    MaxTime = 1
    Amounts = {57}
    Durations = {0, 1}
    FeeChoices = {300, 2000}
    CapChoices = {}
    WalletChoices = {c1}
    InitialProtocolWallet = vault
    InitialDevWallet = c1
    InitialFeeBps = 1000
    InitialMaxEscrow = 57
    GENESIS_MAX_AGENTS = 1
    GENESIS_FREE_TASKS = 1
    NoFrame = noFrame
INVARIANTS Solvency EveryoneGetsTheirDue TypeOK FeesAddUp GenesisBounded
PROPERTIES TaskLifecycle EscrowSpec
CHECK_DEADLOCK FALSE
