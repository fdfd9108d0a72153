SPECIFICATION FairSpec
CONSTANTS
    first = first
    second = second
    Runs = {first, second}
    Operator = Operator
    Nothing = Nothing
    Torn = Torn
    Revisions = {0, 1, 2}
    MaxReruns = 1
    MaxDeaths = 1
    MaxOrphans = 1
INVARIANTS
    TypeOK
    LinkedWereReady
    BackedUpFirst
    LinkTellsWhatRuns
    RollbackGoesBack
PROPERTIES
    HostIsFree
CHECK_DEADLOCK FALSE
