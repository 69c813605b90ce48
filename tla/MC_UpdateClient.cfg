\* The gate composed with the LCP client: updates signed with a finalized key are accepted within the half-life margin.
CONSTANTS
    k1 = k1  k2 = k2  k3 = k3  m1 = m1  m2 = m2  m3 = m3
    None = None
    Keys <- MCKeysPair
    MsgIds <- MCMsgIdsOne
    AttTime <- MCAttTimePair
    QuoteStatus <- MCQuoteStatusPair
    AdvisoryIDs <- MCAdvisoryIDsPair
    Statuses <- MCStatuses
    Advisories <- MCAdvisories
    AllowedQuoteStatuses <- MCAllowedQuoteStatuses
    AllowedAdvisoryIds <- MCAllowedAdvisoryIds
    KeyOrder <- MCKeyOrderPair
    BadReports = {}
    ForeignOperatorKeys = {}
    KeyExpiration = 3
    OperatorEnabled = TRUE
    OperatorInSet = TRUE
    TransientErrors = TRUE
    MaxTime = 3
    MaxHeight = 3
    MaxOrigin = 2
    MaxPending = 1
SPECIFICATION SpecU
INVARIANT TypeOKU
PROPERTY FinalizedSignerAccepted
