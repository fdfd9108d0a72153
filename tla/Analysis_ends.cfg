SPECIFICATION FairSpec
CONSTANTS
    e1 = e1
    e2 = e2
    e3 = e3
    a1 = a1
    a2 = a2
    t1 = t1
    t2 = t2
    Events <- TwoEvents
    Articles <- OneArticle
    DemoArticles <- NoArticle
    Modes <- ModelOnly
    Tasks <- TwoTasks
    Nowhere = Nowhere
    NoTask = NoTask
    Thread = Thread
    NoWork = NoWork
    PerEventBudget = 1
    DailyBudget = 1
    MaxCallCost = 0
    MaxRevision = 1
    MaxDay = 0
    MaxCrashes = 0
INVARIANTS OnlyCutJobsStayRunning
PROPERTIES RequestsEnd
