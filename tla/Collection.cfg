SPECIFICATION FairSpec
CONSTANTS
    Sources = {s1, s2}
    Catalog = {s1}
    Fallbacks = {s1}
    Scheduler = Scheduler
    Requests = {r1}
    Testers = {t1}
    Nobody = Nobody
    NoSource = NoSource
    Expired = Expired
    MaxAsks = 2
    MaxEdits = 1
    MaxLosses = 1
CHECK_DEADLOCK FALSE
INVARIANTS TypeOK HealthIsOfLastRun OnlyLostRunsStayOpen
PROPERTIES CollectionEnds SchedulerStops
