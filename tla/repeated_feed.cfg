\* One worker, one feed that names an indicator twice.
SPECIFICATION Spec
CONSTANTS
    r1 = r1
    r2 = r2
    r3 = r3
    s1 = s1
    s2 = s2
    s3 = s3
    a = a
    b = b
    d1 = d1
    Workers = {w1}
    Requests <- MCRequests
    Sources <- MCSources
    SourceOf <- MCSourceOf
    Iocs <- MCIocs
    NetworkIocs <- MCNetworkIocs
    Unknown = Unknown
    FeedBodies <- MCRepeatingFeed
    Results = {Empty}
    Empty = Empty
    NotEnriched = NotEnriched
    RowIds = {i1, i2}
    NoRow = NoRow
    NotLoaded = NotLoaded
    NoMessage = NoMessage
    MaxRetries = 0
    Faults = {}
    MaxFaults = 0
INVARIANT UniqueRows
\* The system stops once every request is served.
CHECK_DEADLOCK FALSE
