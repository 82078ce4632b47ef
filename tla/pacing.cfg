\* Three lookups on one pair of clients; a token every three ticks.
SPECIFICATION FairSpec
CONSTANTS
    domain = domain
    address = address
    file = file
    k1 = k1
    k2 = k2
    k3 = k3
    Lookups <- MCLookups
    Clients <- MCOneClient
    ClientOf <- MCShared
    IocTypeOf <- MCIocTypeOf
    Configured = {"virustotal", "shodan"}
    Timeout = 2
    RateLimit = 1
    Minute = 3
    Backoff = 1
    Interval = 2
    Prompt = TRUE
    StartBy = 1
    MaxTime = 17
INVARIANTS IInv TimeInv BurstBound Spaced LookupInTime
PROPERTY EveryLookupEnds
\* Every lookup has ended and the last instant has come.
CHECK_DEADLOCK FALSE
