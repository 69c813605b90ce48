\* Liveness under fairness, without transient RPC errors: an in-flight registration held in memory is always resolved.
CONSTANTS
    k1 = k1  k2 = k2  k3 = k3  m1 = m1  m2 = m2  m3 = m3
    None = None
    Keys <- MCKeysPair
    MsgIds <- MCMsgIds
    AttTime <- MCAttTimePair
    QuoteStatus <- MCQuoteStatusPair
    AdvisoryIDs <- MCAdvisoryIDsPair
    Statuses <- MCStatuses
    Advisories <- MCAdvisories
    AllowedQuoteStatuses <- MCAllowedQuoteStatuses
    AllowedAdvisoryIds <- MCAllowedAdvisoryIds
    KeyOrder <- MCKeyOrderPair
    BadReports = {}
    ForeignOperatorKeys = {}
    KeyExpiration = 4
    OperatorEnabled = TRUE
    OperatorInSet = TRUE
    TransientErrors = FALSE
    MaxTime = 3
    MaxHeight = 3
SPECIFICATION FairSpec
PROPERTY UnfinalizedResolves
