SPECIFICATION Spec
CONSTANTS
    acct = acct
    missing = missing
    none = none
    Account = acct
    Instrument = "xag"
    Source = "kuveyt"
    Missing = missing
    NoQuote = none
    NoEvent = none
    NoDecision = none
    Bank <- MCBank
    OpeningCash <- MCOpeningCash
    Prices <- MCPrices
    OrderCash = 20
    QuantityScale = 2
    RateScale = 10
    FeeRate = 1
    TaxRate = 0
    MaxPositionCash = 25
    MaxOrderCash = 20
    MinOrderCash = 4
    MaxDailyLoss = 3
    MaxDrawdown = 2
    MinEdge = 0
    MaxDivergence = missing
    QuoteFreshness = 4
    MaxQuoteLag = 4
    MaxSpread = 2
    MinConfidence = 1
    Reduction = 5
    CollectInterval = 1
    DecisionInterval = 3
    BarWidth = 3
    SignalWidth = 3
    StopLoss = 2
    TakeProfit = 3
    ExitFraction = 5
    MaxCollected = 0
    MaxTime = 11
    MaxIntents = 6
INVARIANTS
    BookReconciles
    OrdersHaveTheirReasons
    OneRunPerSignalBar
    PricedInTime
CHECK_DEADLOCK FALSE
