\* Two workers over one indicator, any one fault: what concurrency never breaks.
SPECIFICATION Spec
CONSTANTS
    r1 = r1
    r2 = r2
    r3 = r3
    s1 = s1
    s2 = s2
    s3 = s3
    a = a
    b = b
    d1 = d1
    Workers = {w1, w2}
    Requests <- MCRequests
    Sources <- MCSources
    SourceOf <- MCSourceOf
    Iocs <- MCIocs
    NetworkIocs <- MCNetworkIocs
    Unknown = Unknown
    FeedBodies <- MCMixedFeed
    Results = {d1, Empty}
    Empty = Empty
    NotEnriched = NotEnriched
    RowIds = {i1, i2}
    NoRow = NoRow
    NotLoaded = NotLoaded
    NoMessage = NoMessage
    MaxRetries = 1
    Faults = {"crash", "database", "publish", "malformed", "lookup"}
    MaxFaults = 1
SYMMETRY MCSymmetry
INVARIANTS TypeOK WriteInv EnrichmentTargetsExist NeverOverstated AppliedOncePerDelivery
PROPERTIES NoClobber TableSpec
\* The system stops once every request is served.
CHECK_DEADLOCK FALSE
