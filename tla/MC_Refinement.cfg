\* Refinement: with transient RPC errors, crashes and reorgs, the in-memory key follows the abstract lifecycle of spec section 4.6.
CONSTANTS
    k1 = k1  k2 = k2  k3 = k3  m1 = m1  m2 = m2  m3 = m3
    None = None
    Keys <- MCKeysPair
    MsgIds <- MCMsgIds
    AttTime <- MCAttTimePair
    QuoteStatus <- MCQuoteStatusPair
    AdvisoryIDs <- MCAdvisoryIDsPair
    Statuses <- MCStatuses
    Advisories <- MCAdvisories
    AllowedQuoteStatuses <- MCAllowedQuoteStatuses
    AllowedAdvisoryIds <- MCAllowedAdvisoryIds
    KeyOrder <- MCKeyOrderPair
    BadReports = {}
    ForeignOperatorKeys = {}
    KeyExpiration = 4
    OperatorEnabled = TRUE
    OperatorInSet = TRUE
    TransientErrors = TRUE
    MaxTime = 3
    MaxHeight = 3
SPECIFICATION Spec
PROPERTY ImplementsKeyLifecycle
