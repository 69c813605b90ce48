\* Spec section 8 promotion monotonicity, without any transient RPC error.
CONSTANTS
    k1 = k1  k2 = k2  k3 = k3  m1 = m1  m2 = m2  m3 = m3
    None = None
    Keys <- MCKeys
    MsgIds <- MCMsgIds
    AttTime <- MCAttTime
    QuoteStatus <- MCQuoteStatus
    AdvisoryIDs <- MCAdvisoryIDs
    Statuses <- MCStatuses
    Advisories <- MCAdvisories
    AllowedQuoteStatuses <- MCAllowedQuoteStatuses
    AllowedAdvisoryIds <- MCAllowedAdvisoryIds
    KeyOrder <- MCKeyOrder
    BadReports = {}
    ForeignOperatorKeys = {}
    KeyExpiration = 4
    OperatorEnabled = TRUE
    OperatorInSet = TRUE
    TransientErrors = FALSE
    MaxTime = 4
    MaxHeight = 3
SPECIFICATION Spec
INVARIANT PromotionMonotone
