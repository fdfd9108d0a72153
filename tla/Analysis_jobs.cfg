SPECIFICATION Spec
CONSTANTS
    e1 = e1
    e2 = e2
    e3 = e3
    a1 = a1
    a2 = a2
    t1 = t1
    t2 = t2
    Events <- OneEvent
    Articles <- OneArticle
    DemoArticles <- NoArticle
    Modes <- BothModes
    Tasks <- TwoTasks
    Nowhere = Nowhere
    NoTask = NoTask
    Thread = Thread
    NoWork = NoWork
    PerEventBudget = 2
    DailyBudget = 3
    MaxCallCost = 2
    MaxRevision = 2
    MaxDay = 1
    MaxCrashes = 1
SYMMETRY TaskSymmetry
INVARIANTS IInv OneCallAtATime BudgetBound
PROPERTIES DeadNeedsOperator
