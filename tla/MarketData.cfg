SPECIFICATION MCSpec
CONSTANTS
    NoQuote = NoQuote
    NoCandle = NoCandle
    NotBuilt = NotBuilt
    NoSession = NoSession
    Prices = {1, 2}
    Width = 2
    Ttl = 2
    QuoteMaxTime = 4
    MaxQuotes = 2
    NoBar = NoBar
    NoSignal = NoSignal
    Symbols = {"SI=F"}
    SignalSymbol = "SI=F"
    Bars = 2
    BarWidth = 2
    RuntimeDelay = 1
    CommandDelays = {0, 2}
    RefreshInterval = 2
    WarmupBars = 1
    MaxTime = 6
    MaxRuns = 3
INVARIANTS
    BackfillsAreSound
    QuotesAreAccountedFor
PROPERTIES
    BarsAreUsedInTime
    BarsOnlyGrow
CHECK_DEADLOCK FALSE
