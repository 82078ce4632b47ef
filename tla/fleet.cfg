\* One pair of clients for each lookup, as the tasks make them.
SPECIFICATION Spec
CONSTANTS
    domain = domain
    address = address
    file = file
    k1 = k1
    k2 = k2
    k3 = k3
    Lookups <- MCLookups
    Clients <- MCThreeClients
    ClientOf <- MCOwn
    IocTypeOf <- MCIocTypeOf
    Configured = {"virustotal", "shodan"}
    Timeout = 2
    RateLimit = 1
    Minute = 3
    Backoff = 1
    Interval = 2
    Prompt = TRUE
    StartBy = 1
    MaxTime = 17
INVARIANT MinuteLimit
\* Every lookup has ended and the last instant has come.
CHECK_DEADLOCK FALSE
