SPECIFICATION FairSpec
CONSTANTS
    r1 = r1
    r2 = r2
    a1 = a1
    a2 = a2
    s1 = s1
    s2 = s2
    d1 = d1
    d2 = d2
    Reports <- OneReport
    Addresses <- TwoAddresses
    Subscribers <- TwoSubscribers
    Dispatchers <- OneDispatcher
    NoSubscription = NoSubscription
    NoRun = NoRun
    Free = Free
    Elsewhere = Elsewhere
    BatchSize = 1
    MaxAttempts = 2
    MaxEdits = 2
    MaxLosses = 1
    MaxOverlaps = 0
PROPERTIES SettledIsFinal EveryoneIsSettled
