SPECIFICATION Spec
CONSTANTS
    i1 = i1
    i2 = i2
    q1 = q1
    q2 = q2
    missing = missing
    none = none
    Intents = {i1, i2}
    QuoteIds = {q1, q2}
    Missing = missing
    NoQuote = none
    NoEvent = none
    NoDecision = none
    Instrument = "xag"
    Source = "kuveyt"
    QuantityScale = 2
    RateScale = 10
    FeeRate = 1
    TaxRate = 0
    MaxPositionCash = 25
    MaxOrderCash = 14
    MinOrderCash = 4
    MaxDailyLoss = 3
    MaxDrawdown = 2
    MinEdge = 0
    MaxDivergence = 2
    QuoteFreshness = 1
    MaxQuoteLag = 1
    MaxSpread = 3
    MinConfidence = 1
    Reduction = 5
    MaxTime = 2
    Requested <- MCRequested
    Bank <- MCBank
    QuoteRows <- MCQuoteRows
    Listings <- MCListings
    Contexts <- MCContexts
    Balances <- MCBalances
INVARIANTS
    ApprovalsWithinLimits
    NoLargerSizeFits
    NothingMissingIsApproved
PROPERTIES
    UsesNewestQuote
