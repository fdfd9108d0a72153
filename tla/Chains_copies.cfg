SPECIFICATION Spec
CONSTANTS
    release = release
    notice = notice
    report = report
    column = column
    ministry = ministry
    agency = agency
    paper = paper
    journal = journal
    Articles = {report, column}
    Sources = {paper, journal}
    Official = {}
    Publisher <- MCPublisher
    Published <- MCPublished
    Tier <- MCTier
    Texts <- MCStories
    Origins = {o1}
    NoOrigin = NoOrigin
    NoText = NoText
    NoGroup = NoGroup
    NoDecision = NoDecision
    MaxVersions <- AllAreRevised
    MaxReports = 2
PROPERTIES
    CopiesDoNotCorroborate
