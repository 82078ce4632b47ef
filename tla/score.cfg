\* One indicator, two workers, three days.
SPECIFICATION Spec
CONSTANTS
    Workers = {w1, w2}
    MaxAge = 2
    DecayFactor <- MCDecayFactor
    NoReport = NoReport
    NotEnriched = NotEnriched
    NotLoaded = NotLoaded
    VtReports <- MCVtReports
    ShodanReports <- MCShodanReports
    MaxFeeds = 2
    FeedConfidences <- MCFeedConfidences
SYMMETRY MCSymmetry
INVARIANTS TypeOK IInv ScoreInRange UnderstatesOnlyAfterRace
PROPERTY SightingLowersOnlyAfterRace
\* The last day comes, and with no task left there is no step.
CHECK_DEADLOCK FALSE
