SPECIFICATION FairSpec
CONSTANTS
    a = a
    b = b
    Calls = {a, b}
    Bot = Bot
    BotRequests <- MCBotRequests
    CliRequests <- MCCliRequests
    Quotas <- MCQuotas
    FirstBins <- MCFirstBins
    NewBin <- MCNewBin
    FirstTrash <- MCFirstTrash
    PerPage = 2
    MaxPage = 3
    MaxFaults = 2
INVARIANTS TypeOK ClearedAsReported ClearsWereAskedFor MostSpecificBin RetryIsFresh LoginsArePaid
PROPERTY EveryCallReturns
CHECK_DEADLOCK FALSE
