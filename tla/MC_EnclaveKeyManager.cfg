\* The whole lifecycle with transient RPC errors, crashes, reorgs and LCP
\* key churn: the write-ahead, policy and on-chain-finality invariants.
CONSTANTS
    k1 = k1  k2 = k2  k3 = k3  m1 = m1  m2 = m2  m3 = m3
    None = None
    Keys <- MCKeys
    MsgIds <- MCMsgIds
    AttTime <- MCAttTime
    QuoteStatus <- MCQuoteStatus
    AdvisoryIDs <- MCAdvisoryIDs
    Statuses <- MCStatuses
    Advisories <- MCAdvisories
    AllowedQuoteStatuses <- MCAllowedQuoteStatuses
    AllowedAdvisoryIds <- MCAllowedAdvisoryIds
    KeyOrder <- MCKeyOrder
    BadReports = {}
    ForeignOperatorKeys = {}
    KeyExpiration = 4
    OperatorEnabled = TRUE
    OperatorInSet = TRUE
    TransientErrors = TRUE
    MaxTime = 3
    MaxHeight = 3
SPECIFICATION Spec
SYMMETRY MCMsgSymmetry
INVARIANT TypeOK
INVARIANT MemoryPersisted
INVARIANT UsableOnSuccess
INVARIANT FinalizedKeyRegistered
