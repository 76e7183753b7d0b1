SPECIFICATION MCSpec
CONSTANTS
    acct = acct
    missing = missing
    none = none
    Undefined = none
    Candles <- MCCandles
    EmaPeriod = 3
    Period = 2
    Unit = 3072
    MaxHistory = 5
    Account = acct
    Instrument = "xag"
    Source = "kuveyt"
    Missing = missing
    NoQuote = none
    NoEvent = none
    NoDecision = none
    Bank <- MCBank
    InitialCash <- MCInitialCash
    QuotedPrices <- MCQuotedPrices
    OrderCash = 20
    Latency = 1
    DrawdownScale = 100
    BarCount = 4
    QuantityScale = 4
    RateScale = 10
    FeeRate = 1
    TaxRate = 0
    MaxPositionCash = 30
    MaxOrderCash = 20
    MinOrderCash = 4
    MaxDailyLoss = 3
    MaxDrawdown = 10
    MinEdge = 0
    MaxDivergence = missing
    QuoteFreshness = 2
    MaxQuoteLag = 2
    MaxSpread = 2
    MinConfidence = 1
    Reduction = 5
    NSplits = 2
    Embargo = 2
    MinTrainRows = 2
    MinTestRows = 1
    Horizon = 2
    BarsInRange = 10
INVARIANTS
    IndicatorsMatchTheirDefinitions
    CurveTellsTheProfit
    ReplayKeepsItsLimits
    FoldsDoNotLeak
    MetricsTellTheRun
CHECK_DEADLOCK FALSE
