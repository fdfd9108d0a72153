SPECIFICATION Spec
CONSTANTS
    release = release
    notice = notice
    report = report
    column = column
    ministry = ministry
    agency = agency
    paper = paper
    journal = journal
    Articles = {release, report, column}
    Sources = {ministry, paper, journal}
    Official = {ministry}
    Publisher <- MCPublisher
    Published <- MCPublished
    Tier <- MCTier
    Texts <- MCDenied
    Origins = {o1}
    NoOrigin = NoOrigin
    NoText = NoText
    NoGroup = NoGroup
    NoDecision = NoDecision
    MaxVersions <- OneIsRevised
    MaxReports = 2
INVARIANTS IInv StancesAreTraceable CorroborationIsIndependent
PROPERTIES SupportOnlyStrengthens
