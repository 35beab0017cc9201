SPECIFICATION FairQueriesSpec
CONSTANTS
    Callers = {p1, p2, p3}
    Shoppers = {p1}
    TTL = 2
    Timeout = 1
    Editions = 2
    Nobody = Nobody
    NoOption = NoOption
    Questions <- MCQuestions
    Histories <- MCHistories
    Split <- MCSplit
    MinBidPrices <- MCMinBids
    Raised <- MCRaised
INVARIANTS
    TypeOK
    NoNeedlessFetch
    FreshIsRecent
    BargainsReal
    CheapestAdequate
    BidsCover
PROPERTIES
    KeepsFeed
    CallReturns
    QueryReturns
