\* Four searches, one without a role, on two connections; five instants.
SPECIFICATION FairSpec
CONSTANTS
    q1 = q1
    q2 = q2
    q3 = q3
    q4 = q4
    Requests <- MCRequests
    KeyOf <- MCKeyOf
    Ttl = 2
    MaxLatency = 1
    PoolSize = 2
    Nothing = Nothing
    MaxTime = 4
INVARIANTS IInv AnswerFresh
PROPERTIES EveryAnswered ServesAgain
\* The last instant comes.
CHECK_DEADLOCK FALSE
