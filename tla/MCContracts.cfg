SPECIFICATION ContractsSpec
CONSTANTS
    a1 = a1
    a2 = a2
    zero = zero
    eth = eth
    usdc = usdc
    noFrame = noFrame
    Accounts <- MCAccounts
    ZeroAddr = zero
    MaxAgents = 1
    ETH = eth
    ERC20s = {usdc}
    MaxTasks = 2
    MaxTime = 1
    Amounts = {40}
    Durations = {1}
    FeeChoices = {}
    CapChoices = {39}
    WalletChoices = {}
    InitialProtocolWallet = a2
    InitialDevWallet = a2
    InitialFeeBps = 0
    InitialMaxEscrow = 40
    GENESIS_MAX_AGENTS = 0
    GENESIS_FREE_TASKS = 1
    NoFrame = noFrame
    MetadataKeys = {"uri", "agentWallet"}
    MetadataValues = {"v1"}
    SigDeadlines = {1}
    MaxNonce = 2
    MaxApprovals = 1
    FeedbackValues = {1}
    FeedbackTags = {"t"}
    MaxResponses = 1
    RegistryChoices = {"this", "other"}
    RefusalChoices <- MCRefusals
    MaxTokenId = 3
    MaxClock = 3
    ExpiryPeriods = {0}
    InitialExpiry = 1
    Responses = {100, 101}
    ValidationTags = {"x"}
    MaxRequests = 2
    Clients <- MCAccounts
    BookValues <- MCValues
    BookDecimals = {0, 1, 2}
    BookTags = {"x", "y"}
    MaxEntries = 3
    SUMMARY_DECIMALS = 2
    MAX_INT128 = 127
INVARIANTS FeedbackBacked WalletOfThisOwner BadgesMatchRecords EveryRequestItsOwn PagesAreTheWhole SummaryIsTheMean
PROPERTIES TransferEndsVerification EscrowNeverStuck
CHECK_DEADLOCK FALSE
