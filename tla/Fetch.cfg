SPECIFICATION FairSpec
CONSTANTS
    siteRobots = siteRobots
    news = news
    article = article
    otherRobots = otherRobots
    page = page
    inside = inside
    Urls = {siteRobots, news, article, otherRobots, page, inside}
    Origins = {"site", "other", "inside"}
    Origin <- MCOrigin
    Robots <- MCRobots
    Public = {siteRobots, news, article, otherRobots, page}
    EntryUrl = news
    FallbackUrl = page
    NoUrl = NoUrl
    NoPolicy = NoPolicy
    MaxRedirects = 2
    MaxSitemapFiles = 2
    LinksPerEntry = 2
    Limit = 1
    Slots = 1
INVARIANTS TypeOK RequestsAreFew VerdictIsRight
PROPERTIES PoliteRequests FetchEnds
CHECK_DEADLOCK FALSE
