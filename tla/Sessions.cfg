SPECIFICATION Spec
CONSTANTS
    a1 = a1
    a2 = a2
    xag = xag
    b1 = b1
    b2 = b2
    x1 = x1
    c1 = c1
    q1 = q1
    q2 = q2
    s1 = s1
    s2 = s2
    none = none
    Accounts = {a1, a2}
    Instruments = {xag}
    DecisionIds = {b1, b2, x1, c1}
    QuoteIds = {q1, q2}
    NoDecision = none
    NoQuote = none
    OpeningCash <- MCOpeningCash
    Decisions <- MCDecisions
    Quotes <- MCQuotes
    SideOf <- MCSideOf
    Sessions = {s1, s2}
    Serves <- Together
    QuantityScale = 2
    RateScale = 10
    FeeRate = 1
    TaxRate = 1
INVARIANTS
    RacesKeepTheRules
    ReconcilesUnlessOvertaken
PROPERTIES
    ImplementsPaperBroker
    SessionsEnd
