SPECIFICATION Spec
CONSTANTS
    a1 = a1
    a2 = a2
    xag = xag
    d1 = d1
    d2 = d2
    d3 = d3
    q1 = q1
    q2 = q2
    none = none
    Accounts = {a1, a2}
    Instruments = {xag}
    DecisionIds = {d1, d2, d3}
    QuoteIds = {q1, q2}
    NoDecision = none
    NoQuote = none
    QuantityScale = 2
    RateScale = 10
    FeeRate = 1
    TaxRate = 1
    OpeningCash <- MCOpeningCash
    Prices <- MCPrices
    Approvals <- MCApprovals
INVARIANTS
    TypeOK
    NeverOverdrawn
    OneOrderPerDecision
    BookReconciles
    BookValueConserved
    NoFreeRoundTrip
PROPERTIES
    AppendOnly
    ImplementsAccountBook
CHECK_DEADLOCK FALSE
